---------------------------- MODULE Spec2Model ----------------------------
(***************************************************************************)
(* Model of the dungeon tile rasterizer of devilutionX                      *)
(* (Source/engine/render/dun_render.cpp and dun_render.hpp).                *)
(*                                                                         *)
(* Memory is a sequence of palette indices; a pointer is a 0-based offset   *)
(* into it.  A draw is recorded as the list of RenderLineOpaque /           *)
(* RenderLineTransparent calls it makes (a "span" each), in call order, and *)
(* Paint replays the spans on the destination memory.                       *)
(***************************************************************************)
EXTENDS Integers, Sequences, FiniteSets, TLC

VARIABLES
    pc,               \* "ready", or the name of the operation that has run
    args,             \* the arguments of the operation (a record)
    lightTables,      \* contents of LightTables, PalSize bytes per light level
    src,              \* the source bytes the operation reads
    dst,              \* the destination memory (surface pixels, row-major)
    before,           \* the destination memory before the operation
    spans,            \* the RenderLine calls of the operation, in order
    clip,             \* the Clip the operation computed or was given
    clipY,            \* the DiamondClipY the operation computed
    fatal,            \* TRUE once app_fatal was called
    locals,           \* the locals of the drawing routine when it returned
    FullyLitLightTable \* the global pointer of this name: NullPtr or an offset
                      \* into LightTables

vars == <<pc, args, lightTables, src, dst, before, spans, clip, clipY, fatal, locals,
          FullyLitLightTable>>

----------------------------------------------------------------------------
(* Program constants.                                                      *)

\* Width of a tile rendering primitive (TILE_WIDTH / 2).
Width == 32

\* Height of a tile rendering primitive, except triangles (TILE_HEIGHT).
Height == 32

\* Height of the lower triangle of a triangular or a trapezoid tile.
LowerHeight == 16

\* Height of the upper triangle of a triangular tile.
TriangleUpperHeight == 15

\* Height of the upper rectangle of a trapezoid tile.
TrapezoidUpperHeight == 16

TriangleHeight == LowerHeight + TriangleUpperHeight

\* For triangles, pixels drawn horizontally per pixel drawn vertically.
XStep == 2

\* Width of the black diamond tile.
TILE_WIDTH == 2 * Width

----------------------------------------------------------------------------
(* Bounds of the model.                                                    *)

\* Number of palette entries (256 in the program); a light table has
\* PalSize bytes and pixel values are 0 .. PalSize - 1.
PalSize == 4

\* Index of the fully dark light table; light levels are 0 .. LightsMax.
LightsMax == 2

\* Largest viewport side tried by the clip calculator.
MaxView == 36

\* The clip calculator is tried on every position from Margin pixels
\* beyond fully off-screen on one side to the same on the other side.
Margin == 2

\* Longest span tried on the line compositor.
MaxSpan == 3

Pal == 0 .. (PalSize - 1)

----------------------------------------------------------------------------
(* Fixed-width integers.                                                   *)

\* static_cast<int8_t>(v)
I8(v) == ((v + 128) % 256) - 128

\* conversion to uint_fast8_t, taken as 8 bits wide
U8(v) == v % 256

\* clamp<int8_t>(v, lo, hi)
Clamp(v, lo, hi) ==
    LET x == I8(v)
        l == I8(lo)
        h == I8(hi)
    IN  IF x < l THEN l ELSE IF h < x THEN h ELSE x

----------------------------------------------------------------------------
(* External tables.                                                        *)

\* paletteTransparencyLookup[bg][fg]: the blend of a foreground palette
\* index over a background one.  Any fixed table; this one is neither
\* symmetric nor constant in either argument.
paletteTransparencyLookup(bg, fg) == (bg + 2 * fg + 1) % PalSize

\* Two different contents of LightTables; level i occupies the PalSize
\* entries from offset PalSize * i (1-based sequence index offset + 1).
LightTablesA ==
    [i \in 1 .. PalSize * (LightsMax + 1) |->
        (((i - 1) % PalSize) + ((i - 1) \div PalSize) + 1) % PalSize]

LightTablesB ==
    [i \in 1 .. PalSize * (LightsMax + 1) |->
        (3 * ((i - 1) % PalSize) + ((i - 1) \div PalSize) + 2) % PalSize]

LightTableContents == {LightTablesA, LightTablesB}

\* nullptr: an offset that is no address of LightTables.
NullPtr == 0 - 1

----------------------------------------------------------------------------
(* Masks.  A mask is the pair of template arguments                        *)
(* (OpaquePrefix, PrefixIncrement).                                        *)

MaskTypes == {"Solid", "Transparent", "Right", "Left", "RightFoliage", "LeftFoliage"}

TileTypes == {"Square", "TransparentSquare", "LeftTriangle", "RightTriangle",
              "LeftTrapezoid", "RightTrapezoid"}

LightTypes == {"FullyDark", "PartiallyLit", "FullyLit"}

IsFoliage(OpaquePrefix, PrefixIncrement) ==
    PrefixIncrement # 0 /\ (OpaquePrefix = (PrefixIncrement > 0))

\* SkipTransparentPixels of a renderer that blends the rest of every row.
SkipTransparentPixelsNever(OpaquePrefix, PrefixIncrement) ==
    FALSE

SkipTransparentPixels(OpaquePrefix, PrefixIncrement) ==
    IsFoliage(OpaquePrefix, PrefixIncrement)

\* LowerHalfTransparent with a strict comparison.
LowerHalfTransparentStrict(OpaquePrefix, PrefixIncrement) ==
    OpaquePrefix = (PrefixIncrement > 0)

LowerHalfTransparent(OpaquePrefix, PrefixIncrement) ==
    OpaquePrefix = (PrefixIncrement >= 0)

\* InitPrefix<PrefixIncrement>() starting one row late.
InitPrefix0Late(PrefixIncrement) ==
    IF PrefixIncrement >= 0 THEN -30 ELSE 62

\* InitPrefix<PrefixIncrement>()
InitPrefix0(PrefixIncrement) ==
    IF PrefixIncrement >= 0 THEN -32 ELSE 64

\* InitPrefix<PrefixIncrement>(y): the prefix at the y-th line from the bottom.
InitPrefix(PrefixIncrement, y) ==
    I8(InitPrefix0(PrefixIncrement) + PrefixIncrement * I8(y))

----------------------------------------------------------------------------
(* Line compositor.                                                        *)

\* RenderLineOpaque with the partially lit case copying the source byte.
OpaquePixelUnlit(Light, lt, tbl, s) ==
    IF Light = "FullyDark" THEN 0 ELSE s

\* The effect of RenderLineOpaque<Light> on one pixel: the new destination
\* byte from the source byte s, with the light table at offset tbl of the
\* light tables lt.
OpaquePixel(Light, lt, tbl, s) ==
    IF Light = "FullyDark" THEN 0
    ELSE IF Light = "FullyLit" THEN s
    ELSE lt[tbl + s + 1]

\* RenderLineTransparent with the indices of the fully dark lookup swapped.
TransparentPixelSwapped(Light, lt, tbl, d, s) ==
    IF Light = "FullyDark" THEN paletteTransparencyLookup(d, 0)
    ELSE IF Light = "FullyLit" THEN paletteTransparencyLookup(d, s)
    ELSE paletteTransparencyLookup(d, lt[tbl + s + 1])

\* The effect of RenderLineTransparent<Light> on one pixel whose
\* destination byte is d.
TransparentPixel(Light, lt, tbl, d, s) ==
    IF Light = "FullyDark" THEN paletteTransparencyLookup(0, d)
    ELSE IF Light = "FullyLit" THEN paletteTransparencyLookup(d, s)
    ELSE paletteTransparencyLookup(d, lt[tbl + s + 1])

\* RenderLineOpaque<Light>(dst, src, n, tbl) as a span.
RenderLineOpaque(Light, d, s, n, tbl) ==
    <<[k |-> "O", light |-> Light, d |-> d, s |-> s, n |-> U8(n), tbl |-> tbl]>>

\* RenderLineTransparent<Light>(dst, src, n, tbl) as a span.
RenderLineTransparent(Light, d, s, n, tbl) ==
    <<[k |-> "T", light |-> Light, d |-> d, s |-> s, n |-> U8(n), tbl |-> tbl]>>

\* Byte i (0-based) of the source bytes sb; a fully dark span reads none.
\* A read outside the source bytes has no defined value: it reads 0 here
\* and OutOfSource tells.
SrcAt(sp, sb, i) ==
    IF sp.light = "FullyDark" \/ i < 0 \/ i >= Len(sb) THEN 0 ELSE sb[i + 1]

\* The spans of ss that read outside the source bytes sb.
OutOfSource(ss, sb) ==
    {i \in 1 .. Len(ss) :
        /\ ss[i].n > 0 /\ ss[i].light # "FullyDark"
        /\ (ss[i].s < 0 \/ ss[i].s + ss[i].n > Len(sb))}

\* The byte at address a, inside span sp, after the span when it held v.
SpanPixel(sp, lt, sb, a, v) ==
    IF sp.k = "O"
    THEN OpaquePixel(sp.light, lt, sp.tbl, SrcAt(sp, sb, sp.s + (a - sp.d)))
    ELSE TransparentPixel(sp.light, lt, sp.tbl, v, SrcAt(sp, sb, sp.s + (a - sp.d)))

\* Memory mem after span sp; the part of a span outside the memory is
\* dropped (OutOfBounds tells).
ApplySpan(mem, sp, lt, sb) ==
    LET lo == IF sp.d < 0 THEN 0 ELSE sp.d
        hi == IF sp.d + sp.n > Len(mem) THEN Len(mem) ELSE sp.d + sp.n
    IN  IF lo >= hi THEN mem
        ELSE SubSeq(mem, 1, lo)
             \o [j \in 1 .. (hi - lo) |-> SpanPixel(sp, lt, sb, lo + j - 1, mem[lo + j])]
             \o SubSeq(mem, hi + 1, Len(mem))

RECURSIVE PaintRange(_, _, _, _, _, _)
\* Memory mem after the spans ss[lo..hi], in order (the left half is
\* computed before the right half is begun).
PaintRange(mem, ss, lo, hi, lt, sb) ==
    IF lo > hi THEN mem
    ELSE IF lo = hi THEN ApplySpan(mem, ss[lo], lt, sb)
    ELSE LET mid == (lo + hi) \div 2
             left == PaintRange(mem, ss, lo, mid, lt, sb)
         IN  IF Len(left) < 0 THEN left
             ELSE PaintRange(left, ss, mid + 1, hi, lt, sb)

\* Memory mem after the spans ss, replayed in order with the light tables
\* lt and the source bytes sb.
Paint(mem, ss, lt, sb) == PaintRange(mem, ss, 1, Len(ss), lt, sb)

\* The spans of ss that write outside a memory of the given size.
OutOfBounds(ss, size) ==
    {i \in 1 .. Len(ss) : ss[i].n > 0 /\ (ss[i].d < 0 \/ ss[i].d + ss[i].n > size)}

RenderLineTransparentOrOpaque(Light, Transparent, d, s, width, tbl) ==
    IF Transparent THEN RenderLineTransparent(Light, d, s, width, tbl)
    ELSE RenderLineOpaque(Light, d, s, width, tbl)

RenderLineTransparentAndOpaque(Light, OpaquePrefix, PrefixIncrement, d, s, prefixWidth, width, tbl) ==
    IF OpaquePrefix
    THEN RenderLineOpaque(Light, d, s, prefixWidth, tbl)
         \o (IF ~SkipTransparentPixels(OpaquePrefix, PrefixIncrement)
             THEN RenderLineTransparent(Light, d + prefixWidth, s + prefixWidth, width - prefixWidth, tbl)
             ELSE <<>>)
    ELSE (IF ~SkipTransparentPixels(OpaquePrefix, PrefixIncrement)
          THEN RenderLineTransparent(Light, d, s, prefixWidth, tbl)
          ELSE <<>>)
         \o RenderLineOpaque(Light, d + prefixWidth, s + prefixWidth, width - prefixWidth, tbl)

RenderLine(Light, OpaquePrefix, PrefixIncrement, d, s, n, tbl, prefix) ==
    IF PrefixIncrement = 0
    THEN RenderLineTransparentOrOpaque(Light, OpaquePrefix, d, s, n, tbl)
    ELSE RenderLineTransparentAndOpaque(Light, OpaquePrefix, PrefixIncrement, d, s,
                                        Clamp(prefix, 0, U8(n)), U8(n), tbl)

----------------------------------------------------------------------------
(* Clip calculator.                                                        *)

\* CalculateClip with the top clip one row short.
CalculateClipTopOffByOne(x, y, w, h, outW, outH) ==
    LET top == IF y < h THEN h - y ELSE 0
        bottom == IF y + 1 > outH THEN (y + 1) - outH ELSE 0
        left == IF x < 0 THEN -x ELSE 0
        right == IF x + w > outW THEN x + w - outW ELSE 0
    IN  [top |-> top, bottom |-> bottom, left |-> left, right |-> right,
         width |-> w - left - right, height |-> h - top - bottom]

\* CalculateClip with the width not reduced by the right clip.
CalculateClipNoRight(x, y, w, h, outW, outH) ==
    LET top == IF y + 1 < h THEN h - (y + 1) ELSE 0
        bottom == IF y + 1 > outH THEN (y + 1) - outH ELSE 0
        left == IF x < 0 THEN -x ELSE 0
        right == IF x + w > outW THEN x + w - outW ELSE 0
    IN  [top |-> top, bottom |-> bottom, left |-> left, right |-> right,
         width |-> w - left, height |-> h - top - bottom]

CalculateClip(x, y, w, h, outW, outH) ==
    LET top == IF y + 1 < h THEN h - (y + 1) ELSE 0
        bottom == IF y + 1 > outH THEN (y + 1) - outH ELSE 0
        left == IF x < 0 THEN -x ELSE 0
        right == IF x + w > outW THEN x + w - outW ELSE 0
    IN  [top |-> top, bottom |-> bottom, left |-> left, right |-> right,
         width |-> w - left - right, height |-> h - top - bottom]

CalculateDunTileClip(x, y, w, h, outW, outH) ==
    LET top == IF y + 1 < h THEN h - (y + 1) ELSE 0
        bottom == IF y + 1 > outH THEN (y + 1) - outH ELSE 0
        left == IF x < 0 THEN -x ELSE 0
        right == IF x + w > outW THEN x + w - outW ELSE 0
    IN  [top |-> top, bottom |-> bottom, left |-> left, right |-> right,
         width |-> w - left - right, height |-> h - top - bottom]

CalculateDiamondClipY(c, UpperHeight) ==
    IF c.bottom > LowerHeight
    THEN [lowerBottom |-> LowerHeight, upperBottom |-> c.bottom - LowerHeight,
          lowerTop |-> 0, upperTop |-> 0]
    ELSE IF c.top > UpperHeight
    THEN [upperTop |-> UpperHeight, lowerTop |-> c.top - UpperHeight,
          upperBottom |-> 0, lowerBottom |-> 0]
    ELSE [upperTop |-> c.top, lowerBottom |-> c.bottom,
          lowerTop |-> 0, upperBottom |-> 0]

GetTileHeight(t) ==
    IF t = "LeftTriangle" \/ t = "RightTriangle" THEN TriangleHeight ELSE Height

NoClip == [top |-> 0, bottom |-> 0, left |-> 0, right |-> 0, width |-> 0, height |-> 0]

NoClipY == [lowerBottom |-> 0, lowerTop |-> 0, upperBottom |-> 0, upperTop |-> 0]

\* No drawing routine has run.
NoLocals == [src |-> 0, dst |-> 0, ub |-> FALSE, failed |-> FALSE]

\* A memory of len bytes holding the pattern a * i + b.
Pattern(a, b, len) == [i \in 1 .. len |-> (a * (i - 1) + b) % PalSize]

----------------------------------------------------------------------------
(* Loops.  A routine's locals are a record st; the spans it has issued are *)
(* st.spans, its cursors st.dst and st.src.                                *)

RECURSIVE For(_, _, _, _)
\* for (i = lo; i <= hi; ++i) st = Body(i, st); a body that sets st.brk
\* has executed `break`.
For(Body(_, _), i, hi, st) ==
    IF i > hi \/ st.brk THEN st ELSE For(Body, i + 1, hi, Body(i, st))

RECURSIVE While(_, _, _)
\* while (Cond(st)) st = Body(st); a body that sets st.brk has executed
\* `break`.
While(Cond(_), Body(_), st) ==
    IF Cond(st) /\ ~st.brk THEN While(Cond, Body, Body(st)) ELSE st

\* The locals every routine starts with.
\* ub: a read outside the source bytes; failed: an assert that does not
\* hold; prefix, drawWidth, remainingLeftClip, remainingWidth: the locals of
\* these names.
Locals(d, s) == [dst |-> d, src |-> s, spans |-> <<>>, brk |-> FALSE, ub |-> FALSE,
                 failed |-> FALSE, prefix |-> 0, drawWidth |-> 0,
                 remainingLeftClip |-> 0, remainingWidth |-> 0]

\* static_cast<int8_t>(*src): the byte at offset s of the source bytes sb.
SrcByte(sb, s) == I8(sb[s + 1])

\* TRUE if reading the byte at offset s leaves the source bytes.
PastEnd(sb, s) == s < 0 \/ s >= Len(sb)

----------------------------------------------------------------------------
(* Square.                                                                 *)

\* RenderSquareFull stepping the source by one pixel less per row.
RenderSquareFullShortRows(Light, Transparent, d, dstPitch, s, tbl) ==
    For(LAMBDA i, st :
            [st EXCEPT !.spans = @ \o RenderLineTransparentOrOpaque(
                                          Light, Transparent, st.dst, st.src, Width, tbl),
                       !.src = @ + Width - 1,
                       !.dst = @ - dstPitch],
        0, Height - 1, Locals(d, s))

RenderSquareFull(Light, Transparent, d, dstPitch, s, tbl) ==
    For(LAMBDA i, st :
            [st EXCEPT !.spans = @ \o RenderLineTransparentOrOpaque(
                                          Light, Transparent, st.dst, st.src, Width, tbl),
                       !.src = @ + Width,
                       !.dst = @ - dstPitch],
        0, Height - 1, Locals(d, s))

RenderSquareClipped(Light, Transparent, d, dstPitch, s, tbl, c) ==
    For(LAMBDA i, st :
            [st EXCEPT !.spans = @ \o RenderLineTransparentOrOpaque(
                                          Light, Transparent, st.dst, st.src, c.width, tbl),
                       !.src = @ + Width,
                       !.dst = @ - dstPitch],
        0, c.height - 1, Locals(d, s + c.bottom * Height + c.left))

----------------------------------------------------------------------------
(* TransparentSquare: rows of RLE runs.                                    *)

\* One turn of the run loop of RenderTransparentSquareFull; st.prefix is the
\* prefix of the row and st.drawWidth what is left of it.
\* The run decoder not moving dst over the pixels of a skip run.
TransparentSquareFullRunSkipInPlace(Light, OpaquePrefix, PrefixIncrement, tbl, sb, st) ==
    IF PastEnd(sb, st.src) THEN [st EXCEPT !.ub = TRUE, !.brk = TRUE]
    ELSE LET v == SrcByte(sb, st.src)
             src1 == st.src + 1
         IN  IF v > 0
             THEN [st EXCEPT !.spans = @ \o RenderLine(Light, OpaquePrefix, PrefixIncrement,
                                               st.dst, src1, v, tbl,
                                               I8(st.prefix - (Width - st.drawWidth))),
                             !.src = src1 + v,
                             !.dst = @ + v,
                             !.drawWidth = U8(@ - v)]
             ELSE [st EXCEPT !.src = src1,
                             !.drawWidth = U8(@ - I8(-v))]

TransparentSquareFullRun(Light, OpaquePrefix, PrefixIncrement, tbl, sb, st) ==
    IF PastEnd(sb, st.src) THEN [st EXCEPT !.ub = TRUE, !.brk = TRUE]
    ELSE LET v == SrcByte(sb, st.src)
             src1 == st.src + 1
         IN  IF v > 0
             THEN [st EXCEPT !.spans = @ \o RenderLine(Light, OpaquePrefix, PrefixIncrement,
                                               st.dst, src1, v, tbl,
                                               I8(st.prefix - (Width - st.drawWidth))),
                             !.src = src1 + v,
                             !.dst = @ + v,
                             !.drawWidth = U8(@ - v)]
             ELSE [st EXCEPT !.src = src1,
                             !.dst = @ + I8(-v),
                             !.drawWidth = U8(@ - I8(-v))]

RenderTransparentSquareFull(Light, OpaquePrefix, PrefixIncrement, d, dstPitch, s, tbl, sb) ==
    For(LAMBDA i, st :
            LET row == While(LAMBDA t : t.drawWidth > 0,
                             LAMBDA t : TransparentSquareFullRun(
                                            Light, OpaquePrefix, PrefixIncrement, tbl, sb, t),
                             [st EXCEPT !.drawWidth = Width])
            IN  [row EXCEPT !.dst = @ - (dstPitch + Width),
                            !.prefix = I8(@ + PrefixIncrement)],
        0, Height - 1,
        [Locals(d, s) EXCEPT !.prefix = InitPrefix0(PrefixIncrement)])

\* One turn of a skipping loop that steps over the length byte of a literal
\* run only.
SkipRunLengthByteOnly(sb, st) ==
    IF PastEnd(sb, st.src) THEN [st EXCEPT !.ub = TRUE, !.brk = TRUE]
    ELSE LET v == SrcByte(sb, st.src)
         IN  IF v > 0
             THEN [st EXCEPT !.src = @ + 1, !.remainingWidth = @ - v]
             ELSE [st EXCEPT !.src = @ + 1, !.remainingWidth = @ - (-v)]

\* One turn of the loop of the lambda skipRestOfTheLine.
SkipRun(sb, st) ==
    IF PastEnd(sb, st.src) THEN [st EXCEPT !.ub = TRUE, !.brk = TRUE]
    ELSE LET v == SrcByte(sb, st.src)
         IN  IF v > 0
             THEN [st EXCEPT !.src = @ + 1 + v, !.remainingWidth = @ - v]
             ELSE [st EXCEPT !.src = @ + 1, !.remainingWidth = @ - (-v)]

\* skipRestOfTheLine(remainingWidth), with its assert.
SkipRestOfTheLine(sb, st, remainingWidth) ==
    LET Asserted(r) == [r EXCEPT !.failed = @ \/ (~r.ub /\ r.remainingWidth # 0)]
    IN  Asserted(While(LAMBDA t : t.remainingWidth > 0,
                       LAMBDA t : SkipRun(sb, t),
                       [st EXCEPT !.remainingWidth = remainingWidth]))

\* The left clip loop drawing an overshooting run from its first pixel.
LeftClipRunFromRunStart(Light, OpaquePrefix, PrefixIncrement, tbl, sb, st) ==
    IF PastEnd(sb, st.src) THEN [st EXCEPT !.ub = TRUE, !.brk = TRUE]
    ELSE LET v == SrcByte(sb, st.src)
             src1 == st.src + 1
             rlc == st.remainingLeftClip
         IN  IF v > 0
             THEN IF v > rlc
                  THEN LET overshoot == v - rlc
                       IN  [st EXCEPT !.spans = @ \o RenderLine(Light, OpaquePrefix,
                                                     PrefixIncrement, st.dst, src1,
                                                     overshoot, tbl,
                                                     I8(st.prefix - (Width - rlc))),
                                      !.dst = @ + overshoot,
                                      !.drawWidth = @ - overshoot,
                                      !.src = src1 + v,
                                      !.remainingLeftClip = @ - v]
                  ELSE [st EXCEPT !.src = src1 + v, !.remainingLeftClip = @ - v]
             ELSE LET w == I8(-v)
                  IN  IF w > rlc
                      THEN [st EXCEPT !.dst = @ + (w - rlc),
                                      !.drawWidth = @ - (w - rlc),
                                      !.src = src1,
                                      !.remainingLeftClip = @ - w]
                      ELSE [st EXCEPT !.src = src1, !.remainingLeftClip = @ - w]

\* One turn of the loop that skips the source of the left clip.
LeftClipRun(Light, OpaquePrefix, PrefixIncrement, tbl, sb, st) ==
    IF PastEnd(sb, st.src) THEN [st EXCEPT !.ub = TRUE, !.brk = TRUE]
    ELSE LET v == SrcByte(sb, st.src)
             src1 == st.src + 1
             rlc == st.remainingLeftClip
         IN  IF v > 0
             THEN IF v > rlc
                  THEN LET overshoot == v - rlc
                       IN  [st EXCEPT !.spans = @ \o RenderLine(Light, OpaquePrefix,
                                                     PrefixIncrement, st.dst, src1 + rlc,
                                                     overshoot, tbl,
                                                     I8(st.prefix - (Width - rlc))),
                                      !.dst = @ + overshoot,
                                      !.drawWidth = @ - overshoot,
                                      !.src = src1 + v,
                                      !.remainingLeftClip = @ - v]
                  ELSE [st EXCEPT !.src = src1 + v, !.remainingLeftClip = @ - v]
             ELSE LET w == I8(-v)
                  IN  IF w > rlc
                      THEN [st EXCEPT !.dst = @ + (w - rlc),
                                      !.drawWidth = @ - (w - rlc),
                                      !.src = src1,
                                      !.remainingLeftClip = @ - w]
                      ELSE [st EXCEPT !.src = src1, !.remainingLeftClip = @ - w]

\* One turn of the loop that draws the non-clipped segment.
DrawRun(Light, OpaquePrefix, PrefixIncrement, tbl, sb, st) ==
    IF PastEnd(sb, st.src) THEN [st EXCEPT !.ub = TRUE, !.brk = TRUE]
    ELSE LET v == SrcByte(sb, st.src)
             src1 == st.src + 1
             dw == st.drawWidth
             pfx == I8(st.prefix - (Width - dw))
         IN  IF v > 0
             THEN IF v > dw
                  THEN [st EXCEPT !.spans = @ \o RenderLine(Light, OpaquePrefix,
                                                PrefixIncrement, st.dst, src1, dw, tbl, pfx),
                                  !.src = src1 + v,
                                  !.dst = @ + dw,
                                  !.drawWidth = @ - v,
                                  !.brk = TRUE]
                  ELSE [st EXCEPT !.spans = @ \o RenderLine(Light, OpaquePrefix,
                                                PrefixIncrement, st.dst, src1, v, tbl, pfx),
                                  !.src = src1 + v,
                                  !.dst = @ + v,
                                  !.drawWidth = @ - v]
             ELSE LET w == I8(-v)
                  IN  IF w > dw
                      THEN [st EXCEPT !.src = src1, !.dst = @ + dw, !.drawWidth = @ - w,
                                      !.brk = TRUE]
                      ELSE [st EXCEPT !.src = src1, !.dst = @ + w, !.drawWidth = @ - w]

\* One row of RenderTransparentSquareClipped.
TransparentSquareClippedRow(Light, OpaquePrefix, PrefixIncrement, dstPitch, tbl, sb, c, st) ==
    LET LeftClipped ==
            While(LAMBDA t : t.remainingLeftClip > 0,
                  LAMBDA t : LeftClipRun(Light, OpaquePrefix, PrefixIncrement, tbl, sb, t),
                  [st EXCEPT !.drawWidth = c.width, !.remainingLeftClip = c.left])
        Draw(skipped) ==
            While(LAMBDA t : t.drawWidth > 0,
                  LAMBDA t : DrawRun(Light, OpaquePrefix, PrefixIncrement, tbl, sb, t),
                  skipped)
        Check(drawn) ==
            [drawn EXCEPT !.brk = drawn.ub,
                          !.failed = @ \/ (~drawn.ub /\ drawn.drawWidth > 0)]
        SkipRest(checked) == SkipRestOfTheLine(sb, checked, c.right + checked.drawWidth)
    IN  [SkipRest(Check(Draw(LeftClipped)))
            EXCEPT !.prefix = I8(@ + PrefixIncrement),
                   !.dst = @ - (dstPitch + c.width)]

RenderTransparentSquareClipped(Light, OpaquePrefix, PrefixIncrement, d, dstPitch, s, tbl, sb, c) ==
    LET bottom == For(LAMBDA i, st : SkipRestOfTheLine(sb, st, Width),
                      0, c.bottom - 1, Locals(d, s))
    IN  For(LAMBDA i, st : TransparentSquareClippedRow(
                               Light, OpaquePrefix, PrefixIncrement, dstPitch, tbl, sb, c, st),
            0, c.height - 1,
            [bottom EXCEPT !.prefix = InitPrefix(PrefixIncrement, c.bottom)])

----------------------------------------------------------------------------
(* Triangles.  The Lower routines take dst and src by reference: they      *)
(* return the locals, and their caller goes on from them.                  *)

CalculateTriangleSourceSkipLowerBottomUnpadded(numLines) ==
    (XStep * numLines * (numLines + 1)) \div 2

CalculateTriangleSourceSkipLowerBottom(numLines) ==
    (XStep * numLines * (numLines + 1)) \div 2 + 2 * ((numLines + 1) \div 2)

CalculateTriangleSourceSkipUpperBottom(numLines) ==
    2 * TriangleUpperHeight * numLines - numLines * (numLines - 1)
        + 2 * ((numLines + 1) \div 2)

\* st after the line RenderLineTransparentOrOpaque(dst + dOff, src + sOff, n)
\* has been issued.
Line(Light, Transparent, st, dOff, sOff, n, tbl) ==
    [st EXCEPT !.spans = @ \o RenderLineTransparentOrOpaque(
                                  Light, Transparent, st.dst + dOff, st.src + sOff, n, tbl)]

RenderLeftTriangleLower(Light, Transparent, d, dstPitch, s, tbl) ==
    For(LAMBDA i, st :
            LET a == [st EXCEPT !.src = @ + 2 * (i % 2)]
                width == XStep * i
                b == Line(Light, Transparent, a, 0, 0, width, tbl)
            IN  [b EXCEPT !.src = @ + width, !.dst = @ - (dstPitch + XStep)],
        1, LowerHeight, Locals(d + XStep * (LowerHeight - 1), s))

RenderLeftTriangleLowerClipVertical(Light, Transparent, cy, d, dstPitch, s, tbl) ==
    For(LAMBDA i, st :
            LET a == [st EXCEPT !.src = @ + 2 * (i % 2)]
                width == XStep * i
                b == Line(Light, Transparent, a, 0, 0, width, tbl)
            IN  [b EXCEPT !.src = @ + width, !.dst = @ - (dstPitch + XStep)],
        1 + cy.lowerBottom, LowerHeight - cy.lowerTop,
        Locals(d + XStep * (LowerHeight - cy.lowerBottom - 1),
               s + CalculateTriangleSourceSkipLowerBottom(cy.lowerBottom)))

RenderLeftTriangleLowerClipLeftAndVertical(Light, Transparent, clipLeft, cy, d, dstPitch, s, tbl) ==
    For(LAMBDA i, st :
            LET a == [st EXCEPT !.src = @ + 2 * (i % 2)]
                width == XStep * i
                startX == Width - XStep * i
                skip == IF startX < clipLeft THEN clipLeft - startX ELSE 0
                b == IF width > skip
                     THEN Line(Light, Transparent, a, skip, skip, width - skip, tbl)
                     ELSE a
            IN  [b EXCEPT !.src = @ + width, !.dst = @ - (dstPitch + XStep)],
        1 + cy.lowerBottom, LowerHeight - cy.lowerTop,
        Locals(d + XStep * (LowerHeight - cy.lowerBottom - 1) - clipLeft,
               s + CalculateTriangleSourceSkipLowerBottom(cy.lowerBottom)))

RenderLeftTriangleLowerClipRightAndVertical(Light, Transparent, clipRight, cy, d, dstPitch, s, tbl) ==
    For(LAMBDA i, st :
            LET a == [st EXCEPT !.src = @ + 2 * (i % 2)]
                width == XStep * i
                b == IF width > clipRight
                     THEN Line(Light, Transparent, a, 0, 0, width - clipRight, tbl)
                     ELSE a
            IN  [b EXCEPT !.src = @ + width, !.dst = @ - (dstPitch + XStep)],
        1 + cy.lowerBottom, LowerHeight - cy.lowerTop,
        Locals(d + XStep * (LowerHeight - cy.lowerBottom - 1),
               s + CalculateTriangleSourceSkipLowerBottom(cy.lowerBottom)))

RenderLeftTriangleFull(Light, Transparent, d, dstPitch, s, tbl) ==
    LET lower == RenderLeftTriangleLower(Light, Transparent, d, dstPitch, s, tbl)
    IN  For(LAMBDA i, st :
                LET a == [st EXCEPT !.src = @ + 2 * (i % 2)]
                    width == Width - XStep * i
                    b == Line(Light, Transparent, a, 0, 0, width, tbl)
                IN  [b EXCEPT !.src = @ + width, !.dst = @ - (dstPitch - XStep)],
            1, TriangleUpperHeight,
            [lower EXCEPT !.dst = @ + 2 * XStep])

RenderLeftTriangleClipVertical(Light, Transparent, d, dstPitch, s, tbl, c) ==
    LET cy == CalculateDiamondClipY(c, TriangleUpperHeight)
        lower == RenderLeftTriangleLowerClipVertical(Light, Transparent, cy, d, dstPitch, s, tbl)
    IN  For(LAMBDA i, st :
                LET a == [st EXCEPT !.src = @ + 2 * (i % 2)]
                    width == Width - XStep * i
                    b == Line(Light, Transparent, a, 0, 0, width, tbl)
                IN  [b EXCEPT !.src = @ + width, !.dst = @ - (dstPitch - XStep)],
            1 + cy.upperBottom, TriangleUpperHeight - cy.upperTop,
            [lower EXCEPT !.src = @ + CalculateTriangleSourceSkipUpperBottom(cy.upperBottom),
                          !.dst = @ + 2 * XStep + XStep * cy.upperBottom])

RenderLeftTriangleClipLeftAndVertical(Light, Transparent, d, dstPitch, s, tbl, c) ==
    LET cy == CalculateDiamondClipY(c, TriangleUpperHeight)
        clipLeft == c.left
        lower == RenderLeftTriangleLowerClipLeftAndVertical(
                     Light, Transparent, clipLeft, cy, d, dstPitch, s, tbl)
    IN  For(LAMBDA i, st :
                LET a == [st EXCEPT !.src = @ + 2 * (i % 2)]
                    width == Width - XStep * i
                    startX == XStep * i
                    skip == IF startX < clipLeft THEN clipLeft - startX ELSE 0
                    b == Line(Light, Transparent, a, skip, skip,
                              IF width > skip THEN width - skip ELSE 0, tbl)
                IN  [b EXCEPT !.src = @ + width, !.dst = @ - (dstPitch - XStep)],
            1 + cy.upperBottom, TriangleUpperHeight - cy.upperTop,
            [lower EXCEPT !.src = @ + CalculateTriangleSourceSkipUpperBottom(cy.upperBottom),
                          !.dst = @ + 2 * XStep + XStep * cy.upperBottom])

RenderLeftTriangleClipRightAndVertical(Light, Transparent, d, dstPitch, s, tbl, c) ==
    LET cy == CalculateDiamondClipY(c, TriangleUpperHeight)
        clipRight == c.right
        lower == RenderLeftTriangleLowerClipRightAndVertical(
                     Light, Transparent, clipRight, cy, d, dstPitch, s, tbl)
    IN  For(LAMBDA i, st :
                LET a == [st EXCEPT !.src = @ + 2 * (i % 2)]
                    width == Width - XStep * i
                IN  IF width <= clipRight
                    THEN [a EXCEPT !.brk = TRUE]
                    ELSE [Line(Light, Transparent, a, 0, 0, width - clipRight, tbl)
                             EXCEPT !.src = @ + width, !.dst = @ - (dstPitch - XStep)],
            1 + cy.upperBottom, TriangleUpperHeight - cy.upperTop,
            [lower EXCEPT !.src = @ + CalculateTriangleSourceSkipUpperBottom(cy.upperBottom),
                          !.dst = @ + 2 * XStep + XStep * cy.upperBottom])

\* RenderRightTriangleLower reading rows that have no padding.
RenderRightTriangleLowerUnpadded(Light, Transparent, d, dstPitch, s, tbl) ==
    For(LAMBDA i, st :
            LET width == XStep * i
                b == Line(Light, Transparent, st, 0, 0, width, tbl)
            IN  [b EXCEPT !.src = @ + width, !.dst = @ - dstPitch],
        1, LowerHeight, Locals(d, s))

RenderRightTriangleLower(Light, Transparent, d, dstPitch, s, tbl) ==
    For(LAMBDA i, st :
            LET width == XStep * i
                b == Line(Light, Transparent, st, 0, 0, width, tbl)
            IN  [b EXCEPT !.src = @ + width + 2 * (i % 2), !.dst = @ - dstPitch],
        1, LowerHeight, Locals(d, s))

RenderRightTriangleLowerClipVertical(Light, Transparent, cy, d, dstPitch, s, tbl) ==
    For(LAMBDA i, st :
            LET width == XStep * i
                b == Line(Light, Transparent, st, 0, 0, width, tbl)
            IN  [b EXCEPT !.src = @ + width + 2 * (i % 2), !.dst = @ - dstPitch],
        1 + cy.lowerBottom, LowerHeight - cy.lowerTop,
        Locals(d, s + CalculateTriangleSourceSkipLowerBottom(cy.lowerBottom)))

RenderRightTriangleLowerClipLeftAndVertical(Light, Transparent, clipLeft, cy, d, dstPitch, s, tbl) ==
    For(LAMBDA i, st :
            LET width == XStep * i
                b == IF width > clipLeft
                     THEN Line(Light, Transparent, st, 0, clipLeft, width - clipLeft, tbl)
                     ELSE st
            IN  [b EXCEPT !.src = @ + width + 2 * (i % 2), !.dst = @ - dstPitch],
        1 + cy.lowerBottom, LowerHeight - cy.lowerTop,
        Locals(d, s + CalculateTriangleSourceSkipLowerBottom(cy.lowerBottom)))

RenderRightTriangleLowerClipRightAndVertical(Light, Transparent, clipRight, cy, d, dstPitch, s, tbl) ==
    For(LAMBDA i, st :
            LET width == XStep * i
                skip == IF Width - width < clipRight THEN clipRight - (Width - width) ELSE 0
                b == IF width > skip
                     THEN Line(Light, Transparent, st, 0, 0, width - skip, tbl)
                     ELSE st
            IN  [b EXCEPT !.src = @ + width + 2 * (i % 2), !.dst = @ - dstPitch],
        1 + cy.lowerBottom, LowerHeight - cy.lowerTop,
        Locals(d, s + CalculateTriangleSourceSkipLowerBottom(cy.lowerBottom)))

RenderRightTriangleFull(Light, Transparent, d, dstPitch, s, tbl) ==
    LET lower == RenderRightTriangleLower(Light, Transparent, d, dstPitch, s, tbl)
    IN  For(LAMBDA i, st :
                LET width == Width - XStep * i
                    b == Line(Light, Transparent, st, 0, 0, width, tbl)
                IN  [b EXCEPT !.src = @ + width + 2 * (i % 2), !.dst = @ - dstPitch],
            1, TriangleUpperHeight, lower)

RenderRightTriangleClipVertical(Light, Transparent, d, dstPitch, s, tbl, c) ==
    LET cy == CalculateDiamondClipY(c, TriangleUpperHeight)
        lower == RenderRightTriangleLowerClipVertical(Light, Transparent, cy, d, dstPitch, s, tbl)
    IN  For(LAMBDA i, st :
                LET width == Width - XStep * i
                    b == Line(Light, Transparent, st, 0, 0, width, tbl)
                IN  [b EXCEPT !.src = @ + width + 2 * (i % 2), !.dst = @ - dstPitch],
            1 + cy.upperBottom, TriangleUpperHeight - cy.upperTop,
            [lower EXCEPT !.src = @ + CalculateTriangleSourceSkipUpperBottom(cy.upperBottom)])

RenderRightTriangleClipLeftAndVertical(Light, Transparent, d, dstPitch, s, tbl, c) ==
    LET cy == CalculateDiamondClipY(c, TriangleUpperHeight)
        clipLeft == c.left
        lower == RenderRightTriangleLowerClipLeftAndVertical(
                     Light, Transparent, clipLeft, cy, d, dstPitch, s, tbl)
    IN  For(LAMBDA i, st :
                LET width == Width - XStep * i
                IN  IF width <= clipLeft
                    THEN [st EXCEPT !.brk = TRUE]
                    ELSE [Line(Light, Transparent, st, 0, clipLeft, width - clipLeft, tbl)
                             EXCEPT !.src = @ + width + 2 * (i % 2), !.dst = @ - dstPitch],
            1 + cy.upperBottom, TriangleUpperHeight - cy.upperTop,
            [lower EXCEPT !.src = @ + CalculateTriangleSourceSkipUpperBottom(cy.upperBottom)])

RenderRightTriangleClipRightAndVertical(Light, Transparent, d, dstPitch, s, tbl, c) ==
    LET cy == CalculateDiamondClipY(c, TriangleUpperHeight)
        clipRight == c.right
        lower == RenderRightTriangleLowerClipRightAndVertical(
                     Light, Transparent, clipRight, cy, d, dstPitch, s, tbl)
    IN  For(LAMBDA i, st :
                LET width == Width - XStep * i
                    skip == IF Width - width < clipRight THEN clipRight - (Width - width) ELSE 0
                    b == Line(Light, Transparent, st, 0, 0,
                              IF width > skip THEN width - skip ELSE 0, tbl)
                IN  [b EXCEPT !.src = @ + width + 2 * (i % 2), !.dst = @ - dstPitch],
            1 + cy.upperBottom, TriangleUpperHeight - cy.upperTop,
            [lower EXCEPT !.src = @ + CalculateTriangleSourceSkipUpperBottom(cy.upperBottom)])

----------------------------------------------------------------------------
(* Trapezoids: the lower triangle and 16 rows of the full width.           *)

\* st after RenderLine / RenderLineTransparentAndOpaque spans ss.
Issue(st, ss) == [st EXCEPT !.spans = @ \o ss]

\* st.prefix holds the uint_fast8_t prefixWidth.
RenderTrapezoidUpperHalf(Light, OpaquePrefix, PrefixIncrement, st0, dstPitch, tbl) ==
    For(LAMBDA i, st :
            LET b == Issue(st, RenderLineTransparentAndOpaque(
                                   Light, OpaquePrefix, PrefixIncrement,
                                   st.dst, st.src, st.prefix, Width, tbl))
            IN  [b EXCEPT !.prefix = IF PrefixIncrement # 0 THEN U8(@ + PrefixIncrement) ELSE @,
                          !.src = @ + Width,
                          !.dst = @ - dstPitch],
        0, TrapezoidUpperHeight - 1,
        [st0 EXCEPT !.prefix = IF PrefixIncrement < 0 THEN 32 ELSE 0])

RenderTrapezoidUpperHalfClipVertical(Light, OpaquePrefix, PrefixIncrement, c, cy, st0, dstPitch, tbl) ==
    For(LAMBDA i, st :
            LET b == Issue(st, RenderLine(Light, OpaquePrefix, PrefixIncrement,
                                          st.dst, st.src, Width, tbl, st.prefix))
            IN  [b EXCEPT !.src = @ + Width,
                          !.prefix = I8(@ + PrefixIncrement),
                          !.dst = @ - dstPitch],
        1 + cy.upperBottom, TrapezoidUpperHeight - cy.upperTop,
        [st0 EXCEPT !.prefix = InitPrefix(PrefixIncrement, c.bottom)])

RenderTrapezoidUpperHalfClipLeftAndVertical(Light, OpaquePrefix, PrefixIncrement, c, cy, st0, dstPitch, tbl) ==
    For(LAMBDA i, st :
            LET b == Issue(st, RenderLine(Light, OpaquePrefix, PrefixIncrement,
                                          st.dst, st.src, c.width, tbl,
                                          I8(st.prefix - c.left)))
            IN  [b EXCEPT !.src = @ + Width,
                          !.prefix = I8(@ + PrefixIncrement),
                          !.dst = @ - dstPitch],
        1 + cy.upperBottom, TrapezoidUpperHeight - cy.upperTop,
        [st0 EXCEPT !.prefix = InitPrefix(PrefixIncrement, c.bottom)])

RenderTrapezoidUpperHalfClipRightAndVertical(Light, OpaquePrefix, PrefixIncrement, c, cy, st0, dstPitch, tbl) ==
    For(LAMBDA i, st :
            LET b == Issue(st, RenderLine(Light, OpaquePrefix, PrefixIncrement,
                                          st.dst, st.src, c.width, tbl, st.prefix))
            IN  [b EXCEPT !.src = @ + Width,
                          !.prefix = I8(@ + PrefixIncrement),
                          !.dst = @ - dstPitch],
        1 + cy.upperBottom, TrapezoidUpperHeight - cy.upperTop,
        [st0 EXCEPT !.prefix = InitPrefix(PrefixIncrement, c.bottom)])

RenderLeftTrapezoidFull(Light, OpaquePrefix, PrefixIncrement, d, dstPitch, s, tbl) ==
    LET lower == RenderLeftTriangleLower(
                     Light, LowerHalfTransparent(OpaquePrefix, PrefixIncrement),
                     d, dstPitch, s, tbl)
    IN  RenderTrapezoidUpperHalf(Light, OpaquePrefix, PrefixIncrement,
                                 [lower EXCEPT !.dst = @ + XStep], dstPitch, tbl)

RenderLeftTrapezoidClipVertical(Light, OpaquePrefix, PrefixIncrement, d, dstPitch, s, tbl, c) ==
    LET cy == CalculateDiamondClipY(c, TrapezoidUpperHeight)
        lower == RenderLeftTriangleLowerClipVertical(
                     Light, LowerHalfTransparent(OpaquePrefix, PrefixIncrement),
                     cy, d, dstPitch, s, tbl)
    IN  RenderTrapezoidUpperHalfClipVertical(
            Light, OpaquePrefix, PrefixIncrement, c, cy,
            [lower EXCEPT !.src = @ + cy.upperBottom * Width, !.dst = @ + XStep],
            dstPitch, tbl)

RenderLeftTrapezoidClipLeftAndVertical(Light, OpaquePrefix, PrefixIncrement, d, dstPitch, s, tbl, c) ==
    LET cy == CalculateDiamondClipY(c, TrapezoidUpperHeight)
        lower == RenderLeftTriangleLowerClipLeftAndVertical(
                     Light, LowerHalfTransparent(OpaquePrefix, PrefixIncrement),
                     c.left, cy, d, dstPitch, s, tbl)
    IN  RenderTrapezoidUpperHalfClipLeftAndVertical(
            Light, OpaquePrefix, PrefixIncrement, c, cy,
            [lower EXCEPT !.src = @ + cy.upperBottom * Width + c.left,
                          !.dst = @ + XStep + c.left],
            dstPitch, tbl)

RenderLeftTrapezoidClipRightAndVertical(Light, OpaquePrefix, PrefixIncrement, d, dstPitch, s, tbl, c) ==
    LET cy == CalculateDiamondClipY(c, TrapezoidUpperHeight)
        lower == RenderLeftTriangleLowerClipRightAndVertical(
                     Light, LowerHalfTransparent(OpaquePrefix, PrefixIncrement),
                     c.right, cy, d, dstPitch, s, tbl)
    IN  RenderTrapezoidUpperHalfClipRightAndVertical(
            Light, OpaquePrefix, PrefixIncrement, c, cy,
            [lower EXCEPT !.src = @ + cy.upperBottom * Width, !.dst = @ + XStep],
            dstPitch, tbl)

RenderRightTrapezoidFull(Light, OpaquePrefix, PrefixIncrement, d, dstPitch, s, tbl) ==
    LET lower == RenderRightTriangleLower(
                     Light, LowerHalfTransparent(OpaquePrefix, PrefixIncrement),
                     d, dstPitch, s, tbl)
    IN  RenderTrapezoidUpperHalf(Light, OpaquePrefix, PrefixIncrement, lower, dstPitch, tbl)

RenderRightTrapezoidClipVertical(Light, OpaquePrefix, PrefixIncrement, d, dstPitch, s, tbl, c) ==
    LET cy == CalculateDiamondClipY(c, TrapezoidUpperHeight)
        lower == RenderRightTriangleLowerClipVertical(
                     Light, LowerHalfTransparent(OpaquePrefix, PrefixIncrement),
                     cy, d, dstPitch, s, tbl)
    IN  RenderTrapezoidUpperHalfClipVertical(
            Light, OpaquePrefix, PrefixIncrement, c, cy,
            [lower EXCEPT !.src = @ + cy.upperBottom * Width], dstPitch, tbl)

RenderRightTrapezoidClipLeftAndVertical(Light, OpaquePrefix, PrefixIncrement, d, dstPitch, s, tbl, c) ==
    LET cy == CalculateDiamondClipY(c, TrapezoidUpperHeight)
        lower == RenderRightTriangleLowerClipLeftAndVertical(
                     Light, LowerHalfTransparent(OpaquePrefix, PrefixIncrement),
                     c.left, cy, d, dstPitch, s, tbl)
    IN  RenderTrapezoidUpperHalfClipLeftAndVertical(
            Light, OpaquePrefix, PrefixIncrement, c, cy,
            [lower EXCEPT !.src = @ + cy.upperBottom * Width + c.left], dstPitch, tbl)

RenderRightTrapezoidClipRightAndVertical(Light, OpaquePrefix, PrefixIncrement, d, dstPitch, s, tbl, c) ==
    LET cy == CalculateDiamondClipY(c, TrapezoidUpperHeight)
        lower == RenderRightTriangleLowerClipRightAndVertical(
                     Light, LowerHalfTransparent(OpaquePrefix, PrefixIncrement),
                     c.right, cy, d, dstPitch, s, tbl)
    IN  RenderTrapezoidUpperHalfClipRightAndVertical(
            Light, OpaquePrefix, PrefixIncrement, c, cy,
            [lower EXCEPT !.src = @ + cy.upperBottom * Width], dstPitch, tbl)

----------------------------------------------------------------------------
(* Dispatch: tile shape, then mask type, then light level.                 *)

\* The template arguments the mask switches pass for each mask type.
MaskArgs(maskType) ==
    CASE maskType = "Solid" -> [OpaquePrefix |-> FALSE, PrefixIncrement |-> 0]
      [] maskType = "Transparent" -> [OpaquePrefix |-> TRUE, PrefixIncrement |-> 0]
      [] maskType = "Left" -> [OpaquePrefix |-> FALSE, PrefixIncrement |-> 2]
      [] maskType = "Right" -> [OpaquePrefix |-> TRUE, PrefixIncrement |-> -2]
      [] maskType = "LeftFoliage" -> [OpaquePrefix |-> TRUE, PrefixIncrement |-> 2]
      [] maskType = "RightFoliage" -> [OpaquePrefix |-> FALSE, PrefixIncrement |-> -2]

\* Dispatch functions that all take every mask type.
AcceptedMasksAny(tile) ==
    MaskTypes

\* The mask types with a case in the mask switch of the tile shape; the
\* switch is the same in the four clip regimes.  Any other mask type
\* reaches the default, app_fatal("Invalid mask type").
AcceptedMasks(tile) ==
    CASE tile \in {"Square", "LeftTriangle", "RightTriangle"} -> {"Solid", "Transparent"}
      [] tile = "TransparentSquare" -> MaskTypes
      [] tile = "LeftTrapezoid" -> {"Solid", "Transparent", "Left"}
      [] tile = "RightTrapezoid" -> {"Solid", "Transparent", "Right"}

\* The light type selection with the two comparisons exchanged.
LightTypeOfSwapped(lightTableIndex) ==
    IF lightTableIndex = 0 THEN "FullyDark"
    ELSE IF lightTableIndex = LightsMax THEN "FullyLit"
    ELSE "PartiallyLit"

\* The light type the DispatchLight functions select.
LightTypeOf(lightTableIndex) ==
    IF lightTableIndex = LightsMax THEN "FullyDark"
    ELSE IF lightTableIndex = 0 THEN "FullyLit"
    ELSE "PartiallyLit"

\* tbl = &LightTables[256 * lightTableIndex], as an offset into the tables.
LightTableOffset(lightTableIndex) == PalSize * lightTableIndex

ClipRegimes == {"Full", "ClipVertical", "ClipLeftAndVertical", "ClipRightAndVertical"}

\* The call the dispatch functions of the tile shape and the clip regime
\* end in, for a mask type the mask switch has a case for.
RenderLight(tile, regime, maskType, Light, tbl, d, dstPitch, s, sb, c) ==
    LET OP == MaskArgs(maskType).OpaquePrefix
        PI == MaskArgs(maskType).PrefixIncrement
        Transparent == (maskType = "Transparent")
    IN  CASE tile = "Square" ->
               IF regime = "Full"
               THEN RenderSquareFull(Light, Transparent, d, dstPitch, s, tbl)
               ELSE RenderSquareClipped(Light, Transparent, d, dstPitch, s, tbl, c)
          [] tile = "TransparentSquare" ->
               IF regime = "Full"
               THEN RenderTransparentSquareFull(Light, OP, PI, d, dstPitch, s, tbl, sb)
               ELSE RenderTransparentSquareClipped(Light, OP, PI, d, dstPitch, s, tbl, sb, c)
          [] tile = "LeftTriangle" ->
               (CASE regime = "Full" ->
                      RenderLeftTriangleFull(Light, Transparent, d, dstPitch, s, tbl)
                 [] regime = "ClipVertical" ->
                      RenderLeftTriangleClipVertical(Light, Transparent, d, dstPitch, s, tbl, c)
                 [] regime = "ClipLeftAndVertical" ->
                      RenderLeftTriangleClipLeftAndVertical(Light, Transparent, d, dstPitch, s, tbl, c)
                 [] regime = "ClipRightAndVertical" ->
                      RenderLeftTriangleClipRightAndVertical(Light, Transparent, d, dstPitch, s, tbl, c))
          [] tile = "RightTriangle" ->
               (CASE regime = "Full" ->
                      RenderRightTriangleFull(Light, Transparent, d, dstPitch, s, tbl)
                 [] regime = "ClipVertical" ->
                      RenderRightTriangleClipVertical(Light, Transparent, d, dstPitch, s, tbl, c)
                 [] regime = "ClipLeftAndVertical" ->
                      RenderRightTriangleClipLeftAndVertical(Light, Transparent, d, dstPitch, s, tbl, c)
                 [] regime = "ClipRightAndVertical" ->
                      RenderRightTriangleClipRightAndVertical(Light, Transparent, d, dstPitch, s, tbl, c))
          [] tile = "LeftTrapezoid" ->
               (CASE regime = "Full" ->
                      RenderLeftTrapezoidFull(Light, OP, PI, d, dstPitch, s, tbl)
                 [] regime = "ClipVertical" ->
                      RenderLeftTrapezoidClipVertical(Light, OP, PI, d, dstPitch, s, tbl, c)
                 [] regime = "ClipLeftAndVertical" ->
                      RenderLeftTrapezoidClipLeftAndVertical(Light, OP, PI, d, dstPitch, s, tbl, c)
                 [] regime = "ClipRightAndVertical" ->
                      RenderLeftTrapezoidClipRightAndVertical(Light, OP, PI, d, dstPitch, s, tbl, c))
          [] tile = "RightTrapezoid" ->
               (CASE regime = "Full" ->
                      RenderRightTrapezoidFull(Light, OP, PI, d, dstPitch, s, tbl)
                 [] regime = "ClipVertical" ->
                      RenderRightTrapezoidClipVertical(Light, OP, PI, d, dstPitch, s, tbl, c)
                 [] regime = "ClipLeftAndVertical" ->
                      RenderRightTrapezoidClipLeftAndVertical(Light, OP, PI, d, dstPitch, s, tbl, c)
                 [] regime = "ClipRightAndVertical" ->
                      RenderRightTrapezoidClipRightAndVertical(Light, OP, PI, d, dstPitch, s, tbl, c))

\* The *DispatchLight / *Dispatch functions taking lightTableIndex select
\* the light type and the table.
Render(tile, regime, maskType, lightTableIndex, d, dstPitch, s, sb, c) ==
    RenderLight(tile, regime, maskType, LightTypeOf(lightTableIndex),
                LightTableOffset(lightTableIndex), d, dstPitch, s, sb, c)

\* Render*Dispatch(maskType, lightTableIndex, dst, dstPitch, src[, clip]):
\* a mask type without a case ends in app_fatal before anything is drawn.
RenderDispatch(tile, regime, maskType, lightTableIndex, d, dstPitch, s, sb, c) ==
    IF maskType \in AcceptedMasks(tile)
    THEN [fatal |-> FALSE,
          st |-> Render(tile, regime, maskType, lightTableIndex, d, dstPitch, s, sb, c)]
    ELSE [fatal |-> TRUE, st |-> Locals(d, s)]

----------------------------------------------------------------------------
(* Source data of a tile frame.                                            *)

\* The value of the pixel in row r (from the bottom), column c of the image
\* with parameters a, b.
PixelValue(a, b, r, c) == (a * (Width * r + c) + b + r) % PalSize

\* Wanted length of run j of row r in segmentation k.
RunLength(k, r, j) == 3 + ((5 * k + 3 * r + 7 * j) % 11)

RECURSIVE RowRuns(_, _, _, _)
\* The runs of row r from column col on in segmentation k, as signed
\* lengths: v > 0 literal pixels, v < 0 transparent ones.  Segmentation 0
\* is one literal run per row; the others alternate literal and
\* transparent runs and leave every eighth row fully transparent.
RowRuns(k, r, col, j) ==
    IF col >= Width THEN <<>>
    ELSE IF k = 0 THEN <<Width>>
    ELSE IF r % 8 = 5 THEN <<-Width>>
    ELSE LET want == RunLength(k, r, j)
             len == IF want < Width - col THEN want ELSE Width - col
             lit == ((r + k + j) % 2 = 0)
         IN  <<IF lit THEN len ELSE -len>> \o RowRuns(k, r, col + len, j + 1)

RECURSIVE EncodeRuns(_, _, _, _, _, _)
\* The bytes of the runs rs[i..] of row r starting at column col: the run
\* length as a byte, then the pixels of a literal run.
EncodeRuns(rs, i, col, r, a, b) ==
    IF i > Len(rs) THEN <<>>
    ELSE LET v == rs[i]
             n == IF v > 0 THEN v ELSE -v
         IN  <<U8(v)>>
             \o (IF v > 0 THEN [x \in 1 .. v |-> PixelValue(a, b, r, col + x - 1)] ELSE <<>>)
             \o EncodeRuns(rs, i + 1, col + n, r, a, b)

RECURSIVE EncodeRows(_, _, _, _)
\* Rows r .. Height - 1 of the image a, b in segmentation k, bottom row first.
EncodeRows(k, r, a, b) ==
    IF r >= Height THEN <<>>
    ELSE EncodeRuns(RowRuns(k, r, 0, 0), 1, 0, r, a, b) \o EncodeRows(k, r + 1, a, b)

\* Bytes of a frame of the tile shape: 32 raw rows for a Square, the rows of
\* the lower and upper parts with their padding for triangles and
\* trapezoids.
SourceSize(tile) ==
    CASE tile = "Square" -> Width * Height
      [] tile \in {"LeftTriangle", "RightTriangle"} ->
           CalculateTriangleSourceSkipLowerBottom(LowerHeight)
               + CalculateTriangleSourceSkipUpperBottom(TriangleUpperHeight)
      [] tile \in {"LeftTrapezoid", "RightTrapezoid"} ->
           CalculateTriangleSourceSkipLowerBottom(LowerHeight) + TrapezoidUpperHeight * Width
      [] OTHER -> 0

\* The source bytes of a frame: for a TransparentSquare the image a, b
\* encoded in segmentation k, for the other shapes SourceSize bytes.
Source(tile, k, a, b) ==
    IF tile = "TransparentSquare" THEN EncodeRows(k, 0, a, b)
    ELSE [i \in 1 .. SourceSize(tile) |-> (a * (i - 1) + b + ((i - 1) \div Width)) % PalSize]

----------------------------------------------------------------------------
(* Specification SpecClip: the clip calculator on every box the renderer   *)
(* uses, every position around the viewport and three viewport sizes.      *)

\* (w, h) of the boxes CalculateClip is called with.
ClipBoxes == {<<Width, Height>>, <<Width, TriangleHeight>>, <<TILE_WIDTH, TriangleHeight>>}

ClipViews == {<<1, 1>>, <<MaxView \div 2, MaxView>>, <<MaxView, MaxView \div 2>>}

InitClip ==
    /\ pc = "ready"
    /\ \E b \in ClipBoxes, v \in ClipViews :
         \E x \in (-b[1] - Margin) .. (v[1] + Margin),
            y \in (-Margin) .. (v[2] + b[2] + Margin) :
            args = [x |-> x, y |-> y, w |-> b[1], h |-> b[2], outW |-> v[1], outH |-> v[2]]
    /\ lightTables = LightTablesA
    /\ FullyLitLightTable = NullPtr
    /\ src = <<>>
    /\ dst = <<>>
    /\ before = <<>>
    /\ spans = <<>>
    /\ clip = NoClip
    /\ clipY = NoClipY
    /\ fatal = FALSE
    /\ locals = NoLocals

DoCalculateClip ==
    /\ pc = "ready"
    /\ clip' = CalculateClip(args.x, args.y, args.w, args.h, args.outW, args.outH)
    /\ pc' = "CalculateClip"
    /\ UNCHANGED <<args, lightTables, src, dst, before, spans, clipY, fatal, locals, FullyLitLightTable>>

DoCalculateDunTileClip ==
    /\ pc = "ready"
    /\ clip' = CalculateDunTileClip(args.x, args.y, args.w, args.h, args.outW, args.outH)
    /\ pc' = "CalculateDunTileClip"
    /\ UNCHANGED <<args, lightTables, src, dst, before, spans, clipY, fatal, locals, FullyLitLightTable>>

\* The callers compute the DiamondClipY of a clip with rows left to draw,
\* with UpperHeight 15 for the 31-row boxes and 16 for the trapezoids.
DoCalculateDiamondClipY ==
    /\ pc = "CalculateClip"
    /\ clip.height > 0
    /\ clipY' = CalculateDiamondClipY(clip, args.h - LowerHeight)
    /\ pc' = "CalculateDiamondClipY"
    /\ UNCHANGED <<args, lightTables, src, dst, before, spans, clip, fatal, locals, FullyLitLightTable>>

NextClip == DoCalculateClip \/ DoCalculateDunTileClip \/ DoCalculateDiamondClipY

SpecClip == InitClip /\ [][NextClip]_vars

----------------------------------------------------------------------------
(* Specification SpecLine: the line compositor on short spans.             *)

LineLen == MaxSpan + 1

InitLine ==
    /\ pc = "ready"
    /\ \E light \in LightTypes, n \in 0 .. MaxSpan, d \in 0 .. 1, s \in 0 .. 1,
          idx \in 0 .. LightsMax :
            args = [light |-> light, n |-> n, d |-> d, s |-> s, tbl |-> PalSize * idx]
    /\ lightTables \in LightTableContents
    /\ FullyLitLightTable = NullPtr
    /\ \E a \in Pal, b \in Pal : src = Pattern(a, b, LineLen)
    /\ \E a \in Pal, b \in Pal : dst = Pattern(a, b, LineLen + 1)
    /\ before = dst
    /\ spans = <<>>
    /\ clip = NoClip
    /\ clipY = NoClipY
    /\ fatal = FALSE
    /\ locals = NoLocals

DoRenderLineOpaque ==
    /\ pc = "ready"
    /\ spans' = RenderLineOpaque(args.light, args.d, args.s, args.n, args.tbl)
    /\ dst' = Paint(dst, spans', lightTables, src)
    /\ pc' = "RenderLineOpaque"
    /\ UNCHANGED <<args, lightTables, src, before, clip, clipY, fatal, locals, FullyLitLightTable>>

DoRenderLineTransparent ==
    /\ pc = "ready"
    /\ spans' = RenderLineTransparent(args.light, args.d, args.s, args.n, args.tbl)
    /\ dst' = Paint(dst, spans', lightTables, src)
    /\ pc' = "RenderLineTransparent"
    /\ UNCHANGED <<args, lightTables, src, before, clip, clipY, fatal, locals, FullyLitLightTable>>

NextLine == DoRenderLineOpaque \/ DoRenderLineTransparent

SpecLine == InitLine /\ [][NextLine]_vars

----------------------------------------------------------------------------
(* Specification SpecRoutine: the drawing routines of every tile shape,    *)
(* called through their dispatch functions with a given Clip on a buffer   *)
(* that holds the whole tile with Margin pixels around it.                 *)

\* Number of segmentations of the rows of a TransparentSquare into runs.
NumSegs == 2

RoutinePitch == Width + 2 * Margin

RoutineRows == Height + 2 * Margin

\* The Clip of a Width-wide, h-high box cut by the given amounts.
MkClip(h, top, bottom, left, right) ==
    [top |-> top, bottom |-> bottom, left |-> left, right |-> right,
     width |-> Width - left - right, height |-> h - top - bottom]

\* Clip amounts <<top, bottom, left, right>> the routines are called with.
RoutineCuts == {<<0, 0, 0, 0>>, <<0, 3, 0, 0>>, <<20, 0, 0, 0>>,
                <<0, 18, 5, 0>>, <<2, 0, 0, 7>>}

\* Source image and destination pattern parameters.
RoutineImage == [a |-> 1, b |-> 2]

\* The address of pixel (x, y) of a surface with the given pitch.
At(x, y, pitch) == y * pitch + x

RECURSIVE Tabulate(_, _)
\* The function on S with the values F(x), every value computed once.
Tabulate(F(_), S) ==
    IF S = {} THEN <<>>
    ELSE LET x == CHOOSE y \in S : TRUE
         IN  (x :> F(x)) @@ Tabulate(F, S \ {x})

\* The source bytes of every tile type and segmentation.
RoutineSources ==
    Tabulate(LAMBDA f : Source(f[1], f[2], RoutineImage.a, RoutineImage.b),
             TileTypes \X (0 .. (NumSegs - 1)))

InitRoutine ==
    /\ pc = "ready"
    /\ \E tile \in TileTypes, idx \in 0 .. LightsMax, k \in 0 .. (NumSegs - 1),
          cut \in RoutineCuts :
          \E maskType \in AcceptedMasks(tile) :
            /\ args = [tile |-> tile, maskType |-> maskType, lightTableIndex |-> idx,
                       seg |-> k, x |-> Margin, y |-> Margin + Height - 1,
                       clip |-> MkClip(GetTileHeight(tile), cut[1], cut[2], cut[3], cut[4])]
            /\ src = RoutineSources[<<tile, k>>]
    /\ lightTables = LightTablesA
    /\ FullyLitLightTable = NullPtr
    /\ dst = Pattern(3, 1, RoutinePitch * RoutineRows)
    /\ before = dst
    /\ spans = <<>>
    /\ clip = NoClip
    /\ clipY = NoClipY
    /\ fatal = FALSE
    /\ locals = NoLocals

\* The dispatch function of the clip regime is called with dst at the
\* bottom left visible pixel of the tile.
Returned(regime, c, r) ==
    /\ spans' = r.st.spans
    /\ dst' = Paint(dst, r.st.spans, lightTables, src)
    /\ fatal' = r.fatal
    /\ locals' = [src |-> r.st.src, dst |-> r.st.dst,
                  ub |-> r.st.ub \/ OutOfSource(r.st.spans, src) # {},
                  failed |-> r.st.failed]
    /\ clip' = c
    /\ pc' = regime

Routine(regime) ==
    /\ pc = "ready"
    /\ Returned(regime, args.clip,
                RenderDispatch(args.tile, regime, args.maskType, args.lightTableIndex,
                               At(args.x + args.clip.left, args.y - args.clip.bottom,
                                  RoutinePitch),
                               RoutinePitch, 0, src, args.clip))
    /\ UNCHANGED <<args, lightTables, src, before, clipY, FullyLitLightTable>>

\* The Full routines draw a tile that is not clipped.
RoutineFull ==
    /\ args.clip.width = Width /\ args.clip.height = GetTileHeight(args.tile)
    /\ Routine("Full")

RoutineClipVertical ==
    /\ args.clip.left = 0 /\ args.clip.right = 0
    /\ Routine("ClipVertical")

RoutineClipLeftAndVertical ==
    /\ args.clip.right = 0
    /\ Routine("ClipLeftAndVertical")

RoutineClipRightAndVertical ==
    /\ args.clip.left = 0
    /\ Routine("ClipRightAndVertical")

NextRoutine ==
    \/ RoutineFull
    \/ RoutineClipVertical
    \/ RoutineClipLeftAndVertical
    \/ RoutineClipRightAndVertical

SpecRoutine == InitRoutine /\ [][NextRoutine]_vars

----------------------------------------------------------------------------
(* Specification SpecTriangle: the triangle and trapezoid routines with    *)
(* MaskType::Solid and MaskType::Transparent under the Clips of a tile on  *)
(* a viewport that is at least as wide and as high as the tile: at most    *)
(* one of left and right and at most one of top and bottom is not 0.       *)

TriangleTiles == {"LeftTriangle", "RightTriangle", "LeftTrapezoid", "RightTrapezoid"}

\* <<mask type, light level>> of the draws.
TriangleDraws == {<<"Solid", 1>>, <<"Transparent", 1>>}

\* Every <<top, bottom>> cut of a tile of height h that leaves a row.
VerticalCuts(h) ==
    {<<n, 0>> : n \in 0 .. (h - 1)} \cup {<<0, n>> : n \in 0 .. (h - 1)}

\* Every <<left, right>> cut that leaves a column.
HorizontalCuts ==
    {<<n, 0>> : n \in 0 .. (Width - 1)} \cup {<<0, n>> : n \in 0 .. (Width - 1)}

\* Cuts around the boundaries of the lower and the upper rows.
SomeVerticalCuts ==
    {<<0, 0>>, <<0, 1>>, <<0, 15>>, <<0, 16>>, <<0, 17>>, <<0, 30>>,
     <<1, 0>>, <<14, 0>>, <<15, 0>>, <<16, 0>>, <<30, 0>>}

SomeHorizontalCuts ==
    {<<0, 0>>, <<1, 0>>, <<16, 0>>, <<31, 0>>, <<0, 1>>, <<0, 15>>, <<0, 31>>}

\* <<top, bottom, left, right>>: every vertical cut with some horizontal
\* cuts and every horizontal cut with some vertical cuts.
TriangleCuts(h) ==
    {<<v[1], v[2], c[1], c[2]>> :
        v \in VerticalCuts(h), c \in SomeHorizontalCuts}
    \cup {<<v[1], v[2], c[1], c[2]>> :
        v \in SomeVerticalCuts, c \in HorizontalCuts}

InitTriangle ==
    /\ pc = "ready"
    /\ \E tile \in TriangleTiles, draw \in TriangleDraws :
          \E cut \in TriangleCuts(GetTileHeight(tile)) :
            /\ args = [tile |-> tile, maskType |-> draw[1], lightTableIndex |-> draw[2],
                       seg |-> 0, x |-> Margin, y |-> Margin + Height - 1,
                       clip |-> MkClip(GetTileHeight(tile), cut[1], cut[2], cut[3], cut[4])]
            /\ src = RoutineSources[<<tile, 0>>]
    /\ lightTables = LightTablesA
    /\ FullyLitLightTable = NullPtr
    /\ dst = Pattern(3, 1, RoutinePitch * RoutineRows)
    /\ before = dst
    /\ spans = <<>>
    /\ clip = NoClip
    /\ clipY = NoClipY
    /\ fatal = FALSE
    /\ locals = NoLocals

SpecTriangle == InitTriangle /\ [][NextRoutine]_vars

----------------------------------------------------------------------------
(* Specification SpecSquare: the TransparentSquare decoders on rows split  *)
(* into runs in several ways, under every left and every right clip.       *)

BadRow == 2

BadExtra == 3

RECURSIVE SplitRuns(_, _, _)
\* The runs rs[i..] encoded another way: split = 0 as they are, split = 1
\* every run of two or more pixels as two runs of the same kind, split >= 2
\* with split - 1 skips of no pixel before each run.
SplitRuns(rs, i, split) ==
    IF i > Len(rs) THEN <<>>
    ELSE LET v == rs[i]
             n == IF v > 0 THEN v ELSE -v
             h == n \div 2
         IN  (IF split = 0 THEN <<v>>
              ELSE IF split = 1
              THEN (IF n < 2 THEN <<v>>
                    ELSE IF v > 0 THEN <<h, n - h>> ELSE <<-h, -(n - h)>>)
              ELSE [x \in 1 .. (split - 1) |-> 0] \o <<v>>)
             \o SplitRuns(rs, i + 1, split)

\* The runs of row r with the last run made extra pixels longer, so that it
\* crosses the end of the row.
Lengthened(rs, extra) ==
    [rs EXCEPT ![Len(rs)] = IF @ > 0 THEN @ + extra ELSE @ - extra]

\* The runs of row r of an encoding e = <<k, split, bad>>: segmentation k,
\* split as above; bad: the runs of row BadRow sum to Width + BadExtra.
SquareRowRuns(e, r) ==
    LET rs == SplitRuns(RowRuns(e[1], r, 0, 0), 1, e[2])
    IN  IF e[3] /\ r = BadRow THEN Lengthened(rs, BadExtra) ELSE rs

RECURSIVE SquareEncodeRows(_, _, _, _)
\* Rows r .. Height - 1 of the image a, b in encoding e, bottom row first.
SquareEncodeRows(e, r, a, b) ==
    IF r >= Height THEN <<>>
    ELSE EncodeRuns(SquareRowRuns(e, r), 1, 0, r, a, b) \o SquareEncodeRows(e, r + 1, a, b)

\* The encodings of the frames: every segmentation as it is, the
\* segmentations with several runs per row also split, and every
\* segmentation with a run that crosses the end of row BadRow.
SquareEncodings ==
    {<<0, 0, FALSE>>, <<1, 0, FALSE>>, <<1, 1, FALSE>>, <<1, 2, FALSE>>,
     <<0, 0, TRUE>>, <<1, 0, TRUE>>}

\* The source bytes of every encoding.
SquareSources ==
    Tabulate(LAMBDA e : SquareEncodeRows(e, 0, RoutineImage.a, RoutineImage.b),
             SquareEncodings)

\* Clip amounts <<top, bottom, left, right>> on both sides.
SquareBothSidesCuts ==
    {<<0, 0, 5, 7>>, <<3, 5, 10, 10>>, <<0, 18, 1, 30>>, <<0, 0, 30, 1>>}

\* Clip amounts <<top, bottom>> of the decoders.
SquareVerticalCuts == {<<0, 0>>, <<0, 18>>, <<3, 5>>}

\* Clip amounts <<top, bottom, left, right>>: every left clip and every
\* right clip of a tile that keeps a column, and clips on both sides, as on
\* a viewport narrower than the tile.
SquareCuts ==
    {<<v[1], v[2], l, 0>> : v \in SquareVerticalCuts, l \in 0 .. (Width - 1)}
        \cup {<<v[1], v[2], 0, r>> : v \in SquareVerticalCuts, r \in 1 .. (Width - 1)}
        \cup SquareBothSidesCuts

\* Clip amounts a frame with a run that crosses the end of a row is drawn
\* with.
SquareBadCuts == {<<0, 0, 0, 0>>, <<0, 0, 5, 0>>, <<0, 0, 0, 7>>, <<3, 0, 0, 0>>}

SquareMasks == {"Solid", "Transparent"}

SquareLights == {0, 1}

\* The <<mask type, light level>> of the draws: the masks of one kind per
\* row at a fully lit and a partial level, the diagonal and foliage masks at
\* a partial level.
SquareDraws ==
    (SquareMasks \X SquareLights) \cup ((MaskTypes \ SquareMasks) \X {1})

InitSquare ==
    /\ pc = "ready"
    /\ \E draw \in SquareDraws, e \in SquareEncodings, cut \in SquareCuts :
            /\ e[3] => cut \in SquareBadCuts
            /\ args = [tile |-> "TransparentSquare", maskType |-> draw[1],
                       lightTableIndex |-> draw[2], seg |-> e[1], split |-> e[2],
                       bad |-> e[3],
                       x |-> Margin, y |-> Margin + Height - 1,
                       clip |-> MkClip(Height, cut[1], cut[2], cut[3], cut[4])]
            /\ src = SquareSources[e]
    /\ lightTables = LightTablesA
    /\ FullyLitLightTable = NullPtr
    /\ dst = Pattern(3, 1, RoutinePitch * RoutineRows)
    /\ before = dst
    /\ spans = <<>>
    /\ clip = NoClip
    /\ clipY = NoClipY
    /\ fatal = FALSE
    /\ locals = NoLocals

\* RenderTransparentSquareClipped with a Clip that cuts the tile on both
\* sides.
SquareClipped ==
    /\ pc = "ready"
    /\ args.clip.left > 0 /\ args.clip.right > 0
    /\ Returned("Clipped", args.clip,
                RenderDispatch(args.tile, "ClipLeftAndVertical", args.maskType,
                               args.lightTableIndex,
                               At(args.x + args.clip.left, args.y - args.clip.bottom,
                                  RoutinePitch),
                               RoutinePitch, 0, src, args.clip))
    /\ UNCHANGED <<args, lightTables, src, before, clipY, FullyLitLightTable>>

NextSquare == NextRoutine \/ SquareClipped

SpecSquare == InitSquare /\ [][NextSquare]_vars

----------------------------------------------------------------------------
(* Black tile: a 64x31 diamond of zero bytes.                              *)

\* A memset that leaves the last byte of the row.
MemsetShort(st, dOff, n) ==
    Issue(st, <<[k |-> "O", light |-> "FullyDark", d |-> st.dst + dOff, s |-> 0,
                 n |-> n - 1, tbl |-> 0]>>)

\* memset(st.dst + dOff, 0, n) as a span.
Memset(st, dOff, n) ==
    Issue(st, <<[k |-> "O", light |-> "FullyDark", d |-> st.dst + dOff, s |-> 0,
                 n |-> n, tbl |-> 0]>>)

RenderBlackTileClipLeftAndVertical(d, dstPitch, sx, cy) ==
    LET lower ==
            For(LAMBDA i, st :
                    LET w == 2 * XStep * i
                        curX == sx + TILE_WIDTH \div 2 - XStep * i
                        a == IF curX >= 0 THEN Memset(st, 0, w)
                             ELSE IF -curX <= w THEN Memset(st, -curX, w + curX)
                             ELSE st
                    IN  [a EXCEPT !.dst = @ - (dstPitch + XStep)],
                cy.lowerBottom + 1, LowerHeight - cy.lowerTop,
                Locals(d + XStep * (LowerHeight - cy.lowerBottom - 1), 0))
        mid == [lower EXCEPT !.dst = @ + 2 * XStep + XStep * cy.upperBottom]
    IN  For(LAMBDA i, st :
                LET w == 2 * XStep * (TriangleUpperHeight - i)
                    curX == sx + TILE_WIDTH \div 2 - XStep * (TriangleUpperHeight - i)
                IN  IF curX >= 0
                    THEN [Memset(st, 0, w) EXCEPT !.dst = @ - (dstPitch - XStep)]
                    ELSE IF -curX <= w
                    THEN [Memset(st, -curX, w + curX) EXCEPT !.dst = @ - (dstPitch - XStep)]
                    ELSE [st EXCEPT !.brk = TRUE],
            cy.upperBottom, TriangleUpperHeight - cy.upperTop - 1, mid)

RenderBlackTileClipRightAndVertical(d, dstPitch, maxWidth, cy) ==
    LET lower ==
            For(LAMBDA i, st :
                    LET width == 2 * XStep * i
                        endX == TILE_WIDTH \div 2 + XStep * i
                        skip == IF endX > maxWidth THEN endX - maxWidth ELSE 0
                        a == IF width > skip THEN Memset(st, 0, width - skip) ELSE st
                    IN  [a EXCEPT !.dst = @ - (dstPitch + XStep)],
                cy.lowerBottom + 1, LowerHeight - cy.lowerTop,
                Locals(d + XStep * (LowerHeight - cy.lowerBottom - 1), 0))
        mid == [lower EXCEPT !.dst = @ + 2 * XStep + XStep * cy.upperBottom]
    IN  For(LAMBDA i, st :
                LET width == TILE_WIDTH - 2 * XStep * i
                    endX == TILE_WIDTH \div 2 + XStep * (TriangleUpperHeight - i + 1)
                    skip == IF endX > maxWidth THEN endX - maxWidth ELSE 0
                IN  IF width <= skip THEN [st EXCEPT !.brk = TRUE]
                    ELSE [Memset(st, 0, width - skip) EXCEPT !.dst = @ - (dstPitch - XStep)],
            1 + cy.upperBottom, TriangleUpperHeight - cy.upperTop, mid)

RenderBlackTileClipY(d, dstPitch, cy) ==
    LET lower ==
            For(LAMBDA i, st :
                    [Memset(st, 0, 2 * XStep * i) EXCEPT !.dst = @ - (dstPitch + XStep)],
                1 + cy.lowerBottom, LowerHeight - cy.lowerTop,
                Locals(d + XStep * (LowerHeight - cy.lowerBottom - 1), 0))
        mid == [lower EXCEPT !.dst = @ + 2 * XStep + XStep * cy.upperBottom]
    IN  For(LAMBDA i, st :
                [Memset(st, 0, TILE_WIDTH - 2 * XStep * i)
                    EXCEPT !.dst = @ - (dstPitch - XStep)],
            1 + cy.upperBottom, TriangleUpperHeight - cy.upperTop, mid)

RenderBlackTileFull(d, dstPitch) ==
    LET lower ==
            For(LAMBDA i, st :
                    [Memset(st, 0, 2 * XStep * i) EXCEPT !.dst = @ - (dstPitch + XStep)],
                1, LowerHeight, Locals(d + XStep * (LowerHeight - 1), 0))
        mid == [lower EXCEPT !.dst = @ + 2 * XStep]
    IN  For(LAMBDA i, st :
                [Memset(st, 0, TILE_WIDTH - 2 * XStep * i)
                    EXCEPT !.dst = @ - (dstPitch - XStep)],
            1, TriangleUpperHeight, mid)

----------------------------------------------------------------------------
(* Entry points.  They return the record                                   *)
(* [fatal, st, clip, clipY]: whether app_fatal was called, the locals of   *)
(* the drawing routine (no spans if none ran), the Clip and the            *)
(* DiamondClipY computed.                                                  *)

\* The entry point returned without calling a drawing routine.
Skipped(c) == [fatal |-> FALSE, st |-> Locals(0, 0), clip |-> c, clipY |-> NoClipY]

\* A failed assert of a _DEBUG build: assert_fail calls app_fatal.
AssertFail(c) == [fatal |-> TRUE, st |-> Locals(0, 0), clip |-> c, clipY |-> NoClipY]

\* The entry point called the dispatch function of the regime.
Drawn(tile, regime, maskType, lightTableIndex, d, dstPitch, sb, c) ==
    LET r == RenderDispatch(tile, regime, maskType, lightTableIndex, d, dstPitch, 0, sb, c)
    IN  [fatal |-> r.fatal, st |-> r.st, clip |-> c, clipY |-> NoClipY]

\* RenderTileFull on a surface of outW x outH pixels; debug: a _DEBUG
\* build, in which assert is compiled in.  c is the Clip of the caller.
RenderTileFullFrom(tile, maskType, lightTableIndex, x, y, sb, outW, outH, dstPitch, debug, c) ==
    IF debug /\ ~(x >= 0 /\ x + Width <= outW /\ y + 1 >= GetTileHeight(tile) /\ y < outH)
    THEN AssertFail(c)
    ELSE Drawn(tile, "Full", maskType, lightTableIndex, At(x, y, dstPitch), dstPitch, sb, c)

RenderTileFull(tile, maskType, lightTableIndex, x, y, sb, outW, outH, dstPitch, debug) ==
    RenderTileFullFrom(tile, maskType, lightTableIndex, x, y, sb, outW, outH, dstPitch,
                       debug, NoClip)

RenderTileClipVertical(tile, maskType, lightTableIndex, x, y, sb, outW, outH, dstPitch, debug) ==
    LET height == GetTileHeight(tile)
        c == CalculateClip(x, y, Width, height, outW, outH)
    IN  IF c.width = Width /\ c.height = height
        THEN RenderTileFullFrom(tile, maskType, lightTableIndex, x, y, sb, outW, outH,
                                dstPitch, debug, c)
        ELSE IF c.height <= 0 THEN Skipped(c)
        ELSE Drawn(tile, "ClipVertical", maskType, lightTableIndex,
                   At(x + c.left, y - c.bottom, dstPitch), dstPitch, sb, c)

\* RenderTileClipLeftAndVertical returning only for a clip without height.
RenderTileClipLeftAndVerticalNoWidthCheck(tile, maskType, lightTableIndex, x, y, sb, outW, outH, dstPitch, debug) ==
    LET height == GetTileHeight(tile)
        c == CalculateClip(x, y, Width, height, outW, outH)
    IN  IF c.width = Width /\ c.height = height
        THEN RenderTileFullFrom(tile, maskType, lightTableIndex, x, y, sb, outW, outH,
                                dstPitch, debug, c)
        ELSE IF c.height <= 0 THEN Skipped(c)
        ELSE Drawn(tile, "ClipLeftAndVertical", maskType, lightTableIndex,
                   At(x + c.left, y - c.bottom, dstPitch), dstPitch, sb, c)

RenderTileClipLeftAndVertical(tile, maskType, lightTableIndex, x, y, sb, outW, outH, dstPitch, debug) ==
    LET height == GetTileHeight(tile)
        c == CalculateClip(x, y, Width, height, outW, outH)
    IN  IF c.width = Width /\ c.height = height
        THEN RenderTileFullFrom(tile, maskType, lightTableIndex, x, y, sb, outW, outH,
                                dstPitch, debug, c)
        ELSE IF c.width <= 0 \/ c.height <= 0 THEN Skipped(c)
        ELSE Drawn(tile, "ClipLeftAndVertical", maskType, lightTableIndex,
                   At(x + c.left, y - c.bottom, dstPitch), dstPitch, sb, c)

RenderTileClipRightAndVertical(tile, maskType, lightTableIndex, x, y, sb, outW, outH, dstPitch, debug) ==
    LET height == GetTileHeight(tile)
        c == CalculateClip(x, y, Width, height, outW, outH)
    IN  IF c.width = Width /\ c.height = height
        THEN RenderTileFullFrom(tile, maskType, lightTableIndex, x, y, sb, outW, outH,
                                dstPitch, debug, c)
        ELSE IF c.width <= 0 \/ c.height <= 0 THEN Skipped(c)
        ELSE Drawn(tile, "ClipRightAndVertical", maskType, lightTableIndex,
                   At(x + c.left, y - c.bottom, dstPitch), dstPitch, sb, c)

world_draw_black_tile(sx, sy, outW, outH, dstPitch) ==
    LET c == CalculateClip(sx, sy, TILE_WIDTH, TriangleHeight, outW, outH)
        cy == CalculateDiamondClipY(c, TriangleUpperHeight)
        d == At(sx, sy - c.bottom, dstPitch)
    IN  IF c.width <= 0 \/ c.height <= 0 THEN Skipped(c)
        ELSE [fatal |-> FALSE, clip |-> c, clipY |-> cy,
              st |-> IF c.width = TILE_WIDTH
                     THEN (IF c.height = TriangleHeight
                           THEN RenderBlackTileFull(d, dstPitch)
                           ELSE RenderBlackTileClipY(d, dstPitch, cy))
                     ELSE (IF c.right = 0
                           THEN RenderBlackTileClipLeftAndVertical(d, dstPitch, sx, cy)
                           ELSE RenderBlackTileClipRightAndVertical(d, dstPitch, c.width, cy))]

\* The global pointer FullyDarkLightTable: the table of the darkest level.
FullyDarkLightTable == LightTableOffset(LightsMax)

IsFullyDark(tbl) == tbl = FullyDarkLightTable

IsFullyLit(tbl, fullyLit) == tbl = fullyLit

\* RenderTile(dst, dstPitch, tile, src, maskType, tbl, clip), declared in
\* dun_render.hpp: the light type is the one tbl stands for, the routine the
\* one of the tile shape, the mask type and the clip regime of clip.
RenderTileAt(d, dstPitch, tile, sb, maskType, tbl, fullyLit, c) ==
    LET Light == IF IsFullyDark(tbl) THEN "FullyDark"
                 ELSE IF IsFullyLit(tbl, fullyLit) THEN "FullyLit"
                 ELSE "PartiallyLit"
        regime == IF c.width = Width /\ c.height = GetTileHeight(tile) THEN "Full"
                  ELSE IF c.left > 0 THEN "ClipLeftAndVertical"
                  ELSE IF c.right > 0 THEN "ClipRightAndVertical"
                  ELSE "ClipVertical"
    IN  IF maskType \in AcceptedMasks(tile)
        THEN [fatal |-> FALSE, clip |-> c, clipY |-> NoClipY,
              st |-> RenderLight(tile, regime, maskType, Light, tbl, d, dstPitch, 0, sb, c)]
        ELSE [fatal |-> TRUE, clip |-> c, clipY |-> NoClipY, st |-> Locals(d, 0)]

\* RenderTile(out, position, levelCelBlock, maskType, tbl) of dun_render.hpp.
RenderTile(tile, maskType, tbl, fullyLit, x, y, sb, outW, outH, dstPitch) ==
    LET c == CalculateDunTileClip(x, y, Width, GetTileHeight(tile), outW, outH)
    IN  IF c.width <= 0 \/ c.height <= 0 THEN Skipped(c)
        ELSE RenderTileAt(At(x + c.left, y - c.bottom, dstPitch), dstPitch, tile, sb,
                          maskType, tbl, fullyLit, c)

\* RenderFullyLitOpaqueTile: FullyLitLightTable is LightTables[0].data()
\* during the call of RenderTile.
RenderFullyLitOpaqueTile(tile, x, y, sb, outW, outH, dstPitch) ==
    LET c == CalculateDunTileClip(x, y, Width, GetTileHeight(tile), outW, outH)
    IN  IF c.width <= 0 \/ c.height <= 0 THEN Skipped(c)
        ELSE RenderTileAt(At(x + c.left, y - c.bottom, dstPitch), dstPitch, tile, sb,
                          "Solid", LightTableOffset(0), LightTableOffset(0), c)

\* The global is left pointing at LightTables[0].data().
RestoreFullyLitSkipped(fullyLitBefore, during) == during

\* FullyLitLightTable = fullyLitBefore, the last statement of
\* RenderFullyLitOpaqueTile.
RestoreFullyLit(fullyLitBefore, during) == fullyLitBefore

\* The global FullyLitLightTable after RenderFullyLitOpaqueTile was called
\* when it was fullyLit: untouched by the early return, else saved, set to
\* LightTables[0].data() for the call of RenderTile and set back.
FullyLitAfterOpaqueTile(fullyLit, tile, x, y, outW, outH) ==
    LET c == CalculateDunTileClip(x, y, Width, GetTileHeight(tile), outW, outH)
    IN  IF c.width <= 0 \/ c.height <= 0 THEN fullyLit
        ELSE RestoreFullyLit(fullyLit, LightTableOffset(0))

----------------------------------------------------------------------------
(* Specification Spec: one call of an entry point on a surface of          *)
(* OutW x OutH pixels, at positions inside, across each edge of and         *)
(* outside the surface.                                                    *)

OutW == TILE_WIDTH + 2 * Margin

OutH == Height + 2 * Margin

\* out.pitch()
OutPitch == OutW

\* The y of a tile that is inside the surface vertically.
InsideY == OutH - 1 - Margin

\* The (x, y) of position / (sx, sy): inside the surface, across its left,
\* right, top and bottom edges and two edges at once, outside on each
\* side, and inside flush with the right and bottom edges.
Positions ==
    {<<Margin, InsideY>>, <<-5, InsideY>>, <<OutW - Width + 7, InsideY>>,
     <<Margin, 20>>, <<Margin, OutH + 2>>, <<-5, 20>>, <<OutW - Width + 7, OutH + 2>>,
     <<-Width, InsideY>>, <<-TILE_WIDTH, InsideY>>, <<OutW, InsideY>>,
     <<Margin, -1>>, <<Margin, OutH + Height - 1>>, <<-Width, -1>>,
     <<OutW - Width, OutH - 1>>}

\* The frames levelCelBlock selects: a tile type and, for a
\* TransparentSquare, the segmentation of its rows.
Frames == {f \in TileTypes \X (0 .. (NumSegs - 1)) : f[1] = "TransparentSquare" \/ f[2] = 0}

FrameSource(f) == RoutineSources[f]

Init ==
    /\ pc = "ready"
    /\ args = [tile |-> "none"]
    /\ lightTables = LightTablesA
    /\ FullyLitLightTable \in {NullPtr, LightTableOffset(0)}
    /\ src = <<>>
    /\ dst = Pattern(3, 1, OutPitch * OutH)
    /\ before = dst
    /\ spans = <<>>
    /\ clip = NoClip
    /\ clipY = NoClipY
    /\ fatal = FALSE
    /\ locals = NoLocals

\* The entry point name is called with the arguments a on the frame bytes
\* sb and returns r, with the global FullyLitLightTable then fullyLit.
Called(name, a, sb, r, fullyLit) ==
    /\ pc = "ready"
    /\ pc' = name
    /\ args' = a
    /\ src' = sb
    /\ spans' = r.st.spans
    /\ dst' = Paint(dst, r.st.spans, lightTables, sb)
    /\ clip' = r.clip
    /\ clipY' = r.clipY
    /\ fatal' = r.fatal
    /\ locals' = [src |-> r.st.src, dst |-> r.st.dst,
                  ub |-> r.st.ub \/ OutOfSource(r.st.spans, sb) # {},
                  failed |-> r.st.failed]
    /\ FullyLitLightTable' = fullyLit
    /\ UNCHANGED <<lightTables, before>>

\* A call of an entry point that does not assign FullyLitLightTable.
Call(name, a, sb, r) == Called(name, a, sb, r, FullyLitLightTable)

TileArgs(f, maskType, lightTableIndex, p, debug) ==
    [tile |-> f[1], seg |-> f[2], maskType |-> maskType, lightTableIndex |-> lightTableIndex,
     x |-> p[1], y |-> p[2], debug |-> debug]

\* The Clip of the tile of frame f at position p.
TileClip(f, p) == CalculateClip(p[1], p[2], Width, GetTileHeight(f[1]), OutW, OutH)

\* RenderTileFull is for a tile that is inside the surface: a _DEBUG build
\* asserts it, any other build relies on it.
DoRenderTileFull ==
    /\ pc = "ready"
    /\ \E f \in Frames, m \in MaskTypes, idx \in 0 .. LightsMax, p \in Positions,
          debug \in BOOLEAN :
           /\ debug \/ (TileClip(f, p).width = Width /\ TileClip(f, p).height = GetTileHeight(f[1]))
           /\ Call("RenderTileFull", TileArgs(f, m, idx, p, debug), FrameSource(f),
                RenderTileFull(f[1], m, idx, p[1], p[2], FrameSource(f), OutW, OutH,
                               OutPitch, debug))

\* RenderTileClipVertical is for a tile that is inside the surface
\* horizontally: it draws all the columns of a tile that has visible rows.
\* The asserts of RenderTileFull hold when the clipping entry points call
\* it, whatever the build.
DoRenderTileClipVertical ==
    /\ pc = "ready"
    /\ \E f \in Frames, m \in MaskTypes, idx \in 0 .. LightsMax, p \in Positions :
           /\ TileClip(f, p).height <= 0 \/ TileClip(f, p).width = Width
           /\ Call("RenderTileClipVertical", TileArgs(f, m, idx, p, TRUE), FrameSource(f),
                RenderTileClipVertical(f[1], m, idx, p[1], p[2], FrameSource(f), OutW, OutH,
                                       OutPitch, TRUE))

\* RenderTileClipLeftAndVertical is for a tile that does not cross the right
\* edge of the surface: it draws a visible tile up to its last column.
DoRenderTileClipLeftAndVertical ==
    /\ pc = "ready"
    /\ \E f \in Frames, m \in MaskTypes, idx \in 0 .. LightsMax, p \in Positions :
           /\ TileClip(f, p).height <= 0 \/ TileClip(f, p).width <= 0 \/ TileClip(f, p).right = 0
           /\ Call("RenderTileClipLeftAndVertical", TileArgs(f, m, idx, p, TRUE), FrameSource(f),
                RenderTileClipLeftAndVertical(f[1], m, idx, p[1], p[2], FrameSource(f),
                                              OutW, OutH, OutPitch, TRUE))

\* RenderTileClipRightAndVertical is for a tile that does not cross the left
\* edge of the surface: it draws a visible tile from its first column.
DoRenderTileClipRightAndVertical ==
    /\ pc = "ready"
    /\ \E f \in Frames, m \in MaskTypes, idx \in 0 .. LightsMax, p \in Positions :
           /\ TileClip(f, p).height <= 0 \/ TileClip(f, p).width <= 0 \/ TileClip(f, p).left = 0
           /\ Call("RenderTileClipRightAndVertical", TileArgs(f, m, idx, p, TRUE), FrameSource(f),
                RenderTileClipRightAndVertical(f[1], m, idx, p[1], p[2], FrameSource(f),
                                               OutW, OutH, OutPitch, TRUE))

Do_world_draw_black_tile ==
    /\ pc = "ready"
    /\ \E p \in Positions :
           Call("world_draw_black_tile", [tile |-> "none", x |-> p[1], y |-> p[2]], <<>>,
                world_draw_black_tile(p[1], p[2], OutW, OutH, OutPitch))

\* tbl is the table of a light level.
DoRenderTile ==
    /\ pc = "ready"
    /\ \E f \in Frames, m \in MaskTypes, idx \in 0 .. LightsMax, p \in Positions :
           Call("RenderTile", TileArgs(f, m, idx, p, TRUE), FrameSource(f),
                RenderTile(f[1], m, LightTableOffset(idx), FullyLitLightTable, p[1], p[2],
                           FrameSource(f), OutW, OutH, OutPitch))

\* FullyLitLightTable is saved before and restored after the draw.
DoRenderFullyLitOpaqueTile ==
    /\ pc = "ready"
    /\ \E f \in Frames, p \in Positions :
           Called("RenderFullyLitOpaqueTile", TileArgs(f, "Solid", 0, p, TRUE),
                  FrameSource(f),
                  RenderFullyLitOpaqueTile(f[1], p[1], p[2], FrameSource(f), OutW, OutH,
                                           OutPitch),
                  FullyLitAfterOpaqueTile(FullyLitLightTable, f[1], p[1], p[2], OutW, OutH))

Next ==
    \/ DoRenderTileFull
    \/ DoRenderTileClipVertical
    \/ DoRenderTileClipLeftAndVertical
    \/ DoRenderTileClipRightAndVertical
    \/ Do_world_draw_black_tile
    \/ DoRenderTile
    \/ DoRenderFullyLitOpaqueTile

Spec == Init /\ [][Next]_vars

----------------------------------------------------------------------------
(* Specification SpecBlack: world_draw_black_tile at every position on and *)
(* around a surface a little larger than the diamond.                      *)

BlackW == TILE_WIDTH + Margin

BlackH == TriangleHeight + Margin

\* Every sx from a diamond wholly left of the surface to one wholly right
\* of it, every sy from wholly above to wholly below.
BlackXs == (0 - TILE_WIDTH - 1) .. (BlackW + 1)

BlackYs == (0 - 2) .. (BlackH + TriangleHeight)

\* A memory of len bytes none of which is 0.
NonZeroPattern(len) == [i \in 1 .. len |-> 1 + (i % (PalSize - 1))]

InitBlack ==
    /\ pc = "ready"
    /\ args = [tile |-> "none"]
    /\ lightTables = LightTablesA
    /\ FullyLitLightTable = NullPtr
    /\ src = <<>>
    /\ dst = NonZeroPattern(BlackW * BlackH)
    /\ before = dst
    /\ spans = <<>>
    /\ clip = NoClip
    /\ clipY = NoClipY
    /\ fatal = FALSE
    /\ locals = NoLocals

BlackTile ==
    /\ pc = "ready"
    /\ \E sx \in BlackXs, sy \in BlackYs :
           Call("world_draw_black_tile", [tile |-> "none", x |-> sx, y |-> sy], <<>>,
                world_draw_black_tile(sx, sy, BlackW, BlackH, BlackW))

NextBlack == BlackTile

SpecBlack == InitBlack /\ [][NextBlack]_vars

----------------------------------------------------------------------------
(* Specification SpecBlackView: world_draw_black_tile on surfaces lower or *)
(* narrower than the diamond, whose rows are followed by padding bytes.    *)

\* <<width, height>> of the surfaces: low, narrow, and both.
BlackViews ==
    {<<TILE_WIDTH + Margin, 8>>, <<24, TriangleHeight + Margin>>, <<24, 8>>}

\* Bytes between the last pixel of a row and the first of the next.
BlackPadding == TILE_WIDTH

InitBlackView ==
    /\ pc = "ready"
    /\ \E v \in BlackViews :
          /\ args = [tile |-> "none", outW |-> v[1], outH |-> v[2]]
          /\ dst = NonZeroPattern((v[1] + BlackPadding) * v[2])
    /\ lightTables = LightTablesA
    /\ FullyLitLightTable = NullPtr
    /\ src = <<>>
    /\ before = dst
    /\ spans = <<>>
    /\ clip = NoClip
    /\ clipY = NoClipY
    /\ fatal = FALSE
    /\ locals = NoLocals

BlackTileView ==
    /\ pc = "ready"
    /\ \E sx \in (0 - TILE_WIDTH - 1) .. (args.outW + 1),
          sy \in (0 - 2) .. (args.outH + TriangleHeight) :
           Call("world_draw_black_tile",
                [tile |-> "none", x |-> sx, y |-> sy, outW |-> args.outW,
                 outH |-> args.outH],
                <<>>,
                world_draw_black_tile(sx, sy, args.outW, args.outH,
                                      args.outW + BlackPadding))

NextBlackView == BlackTileView

SpecBlackView == InitBlackView /\ [][NextBlackView]_vars

----------------------------------------------------------------------------
(* The CL2 encoder of utils/surface_to_cl2.cpp.  A surface is a sequence   *)
(* of bytes, pitch bytes per line; a pointer into it is a 0-based offset.  *)

\* The bytes out with val written little-endian at the 0-based offset pos.
WriteLE32(out, pos, val) ==
    [i \in 1 .. Len(out) |->
        IF i = pos + 1 THEN val % 256
        ELSE IF i = pos + 2 THEN (val \div 256) % 256
        ELSE IF i = pos + 3 THEN (val \div 65536) % 256
        ELSE IF i = pos + 4 THEN (val \div 16777216) % 256
        ELSE out[i]]

WriteLE16(out, pos, val) ==
    [i \in 1 .. Len(out) |->
        IF i = pos + 1 THEN val % 256
        ELSE IF i = pos + 2 THEN (val \div 256) % 256
        ELSE out[i]]

RECURSIVE AppendCl2TransparentRun(_, _)
AppendCl2TransparentRun(width, out) ==
    IF width >= 127 THEN AppendCl2TransparentRun(width - 127, Append(out, 127))
    ELSE IF width = 0 THEN out
    ELSE Append(out, width)

RECURSIVE AppendCl2FillRun(_, _, _)
AppendCl2FillRun(color, width, out) ==
    IF width >= 63 THEN AppendCl2FillRun(color, width - 63, out \o <<128, color>>)
    ELSE IF width = 0 THEN out
    ELSE out \o <<191 - width, color>>

RECURSIVE AppendCl2SolidRun(_, _, _, _)
\* AppendCl2SolidRun(src, width, out) with src the offset s into the
\* surface bytes sb.
AppendCl2SolidRun(sb, s, width, out) ==
    IF width >= 65
    THEN AppendCl2SolidRun(sb, s + 65, width - 65,
                           out \o <<191>> \o SubSeq(sb, s + 1, s + 65))
    ELSE IF width = 0 THEN out
    ELSE out \o <<256 - width>> \o SubSeq(sb, s + 1, s + width)

\* One turn of the loop of ContinueAppendCl2Line at pixel i of the line at
\* offset p; st holds run, runBegin, prevColor, sameColorWidth and out.
Cl2Pixel(st, i, sb, p, transparentColorIndex) ==
    LET pixel == sb[p + i + 1]
    IN  CASE st.run = "TransparentRun" ->
               (IF pixel = transparentColorIndex THEN st
                ELSE [st EXCEPT !.out = AppendCl2TransparentRun(i - st.runBegin, @),
                                !.run = "FillRun", !.runBegin = i, !.prevColor = pixel])
          [] st.run = "FillRun" ->
               (IF pixel = st.prevColor THEN st
                ELSE IF i - st.runBegin >= 3
                THEN [st EXCEPT !.out = AppendCl2FillRun(st.prevColor, i - st.runBegin, @),
                                !.run = IF pixel = transparentColorIndex
                                        THEN "TransparentRun" ELSE @,
                                !.runBegin = i, !.prevColor = pixel]
                ELSE IF pixel = transparentColorIndex
                THEN [st EXCEPT !.out = AppendCl2SolidRun(sb, p + st.runBegin,
                                                         i - st.runBegin, @),
                                !.run = "TransparentRun", !.runBegin = i,
                                !.prevColor = pixel]
                ELSE [st EXCEPT !.run = "SolidRun", !.sameColorWidth = 1,
                                !.prevColor = pixel])
          [] OTHER ->
               (IF pixel = st.prevColor
                THEN (IF st.sameColorWidth + 1 >= 3
                      THEN [st EXCEPT !.sameColorWidth = @ + 1,
                                      !.out = AppendCl2SolidRun(
                                                  sb, p + st.runBegin,
                                                  i + 1 - st.runBegin
                                                      - (st.sameColorWidth + 1), @),
                                      !.run = "FillRun",
                                      !.runBegin = i + 1 - (st.sameColorWidth + 1),
                                      !.prevColor = pixel]
                      ELSE [st EXCEPT !.sameColorWidth = @ + 1, !.prevColor = pixel])
                ELSE IF pixel = transparentColorIndex
                THEN [st EXCEPT !.out = AppendCl2SolidRun(sb, p + st.runBegin,
                                                         i - st.runBegin, @),
                                !.run = "TransparentRun", !.runBegin = i,
                                !.prevColor = pixel]
                ELSE [st EXCEPT !.sameColorWidth = 1, !.prevColor = pixel])

RECURSIVE Cl2Pixels(_, _, _, _, _, _)
\* The loop over the pixels i .. width - 1 of the line, computed in two
\* halves, the pixels of the first half before those of the second.
Cl2Pixels(st, i, sb, p, width, transparentColorIndex) ==
    IF i >= width THEN st
    ELSE IF i + 1 = width THEN Cl2Pixel(st, i, sb, p, transparentColorIndex)
    ELSE LET mid == (i + width) \div 2
             first == Cl2Pixels(st, i, sb, p, mid, transparentColorIndex)
         IN  IF Len(first.out) < 0 THEN first
             ELSE Cl2Pixels(first, mid, sb, p, width, transparentColorIndex)

\* ContinueAppendCl2Line on the line at offset p of the surface bytes sb:
\* the bytes of out followed by the runs of the line.
ContinueAppendCl2Line(run, runBegin, prevColor, sameColorWidth, sb, p, width, transparentColorIndex, out) ==
    LET st == Cl2Pixels([run |-> run, runBegin |-> runBegin, prevColor |-> prevColor,
                         sameColorWidth |-> sameColorWidth, out |-> out],
                        0, sb, p, width, transparentColorIndex)
    IN  IF st.run = "TransparentRun"
        THEN AppendCl2TransparentRun(width - st.runBegin, st.out)
        ELSE IF st.run = "FillRun"
        THEN AppendCl2FillRun(st.prevColor, width - st.runBegin, st.out)
        ELSE AppendCl2SolidRun(sb, p + st.runBegin, width - st.runBegin, st.out)

AppendCl2Line(sb, p, width, transparentColorIndex, out) ==
    ContinueAppendCl2Line("TransparentRun", 0, transparentColorIndex, 0, sb, p, width,
                          transparentColorIndex, out)

\* transparentContinueWidth after a line was appended to the prevSize bytes
\* before it.
TransparentContinueWidth(prevSize, celData) ==
    IF prevSize + 1 = Len(celData) /\ celData[Len(celData)] < 128
    THEN 191 - celData[Len(celData)]
    ELSE 0

\* The frame header offset written when line lines of the frame are left.
FrameHeaderBlock(celData, frameHeaderPos, line) ==
    IF line \in {32, 64, 96, 128}
    THEN WriteLE16(celData, frameHeaderPos + 2 * (line \div 32),
                   (Len(celData) - frameHeaderPos) % 65536)
    ELSE celData

RECURSIVE Cl2Lines(_, _, _, _, _, _, _, _, _)
\* The loop while (line-- != 0) of a frame: dataPtr is the offset of the
\* line appended last.
Cl2Lines(celData, line, dataPtr, transparentContinueWidth, sb, width, pitch, transparentColorIndex, frameHeaderPos) ==
    IF line = 0 THEN celData
    ELSE LET ptr == dataPtr - pitch
             prevSize == Len(celData)
             appended ==
                 IF transparentContinueWidth # 0
                 THEN ContinueAppendCl2Line(
                          "TransparentRun", 0 - transparentContinueWidth,
                          transparentColorIndex, 0, sb, ptr, width, transparentColorIndex,
                          SubSeq(celData, 1, Len(celData) - 1))
                 ELSE AppendCl2Line(sb, ptr, width, transparentColorIndex, celData)
         IN  Cl2Lines(FrameHeaderBlock(appended, frameHeaderPos, line - 1), line - 1, ptr,
                      TransparentContinueWidth(prevSize, appended), sb, width, pitch,
                      transparentColorIndex, frameHeaderPos)

Zeros(n) == [i \in 1 .. n |-> 0]

FrameHeaderSize == 10

RECURSIVE Cl2Frames(_, _, _, _, _, _, _, _, _)
\* The loop over the frames frame .. numFrames of SurfaceToCl2.
Cl2Frames(celData, frame, numFrames, dataPtr, sb, width, pitch, frameHeight, transparentColorIndex) ==
    IF frame > numFrames THEN celData
    ELSE LET offset == WriteLE32(celData, 4 * frame, Len(celData))
             frameHeaderPos == Len(offset)
             header == WriteLE16(offset \o Zeros(FrameHeaderSize), frameHeaderPos,
                                 FrameHeaderSize)
             lines == Cl2Lines(header, frameHeight, dataPtr + pitch * frameHeight, 0, sb,
                               width, pitch, transparentColorIndex, frameHeaderPos)
         IN  Cl2Frames(lines, frame + 1, numFrames, dataPtr + pitch * frameHeight, sb,
                       width, pitch, frameHeight, transparentColorIndex)

\* SurfaceToCl2 on a surface of width x height pixels with the bytes sb.
SurfaceToCl2(sb, width, height, pitch, numFrames, transparentColorIndex) ==
    LET frameHeight == height \div numFrames
        frames == Cl2Frames(WriteLE32(Zeros(4 * (2 + numFrames)), 0, numFrames), 1,
                            numFrames, 0, sb, width, pitch, frameHeight,
                            transparentColorIndex)
    IN  [celData |-> WriteLE32(frames, 4 * (1 + numFrames), Len(frames)),
         width |-> width, frameHeight |-> frameHeight]

----------------------------------------------------------------------------
(* Specification SpecCl2: SurfaceToCl2 on every small surface over three   *)
(* colours and on surfaces with lines longer than the longest run.         *)

Cl2Colors == {0, 1, 2}

\* <<width, frame height, number of frames>> of the small surfaces.
Cl2Shapes ==
    {<<1, 1, 1>>, <<4, 1, 1>>, <<5, 1, 1>>, <<3, 2, 1>>, <<2, 3, 1>>, <<1, 2, 2>>,
     <<2, 1, 2>>}

\* Bytes of a surface line after its pixels.
Cl2Padding == 1

\* Width of the long lines: longer than a transparent run of 0x7F pixels.
Cl2LongWidth == 130

\* Pixel col of a long line of kind k: 0 transparent, 1 one colour, 2 two
\* colours in turn, 3 one colour for 64 pixels and then two in turn.
LongPixel(k, col) ==
    CASE k = 0 -> 0
      [] k = 1 -> 1
      [] k = 2 -> 1 + (col % 2)
      [] OTHER -> (IF col < 64 THEN 1 ELSE 1 + (col % 2))

\* The bytes of a surface whose pixel in line row, column col is
\* px(row, col), with Cl2Padding bytes after every line.
SurfaceBytes(px(_, _), width, height) ==
    [i \in 1 .. ((width + Cl2Padding) * height) |->
        LET row == (i - 1) \div (width + Cl2Padding)
            col == (i - 1) % (width + Cl2Padding)
        IN  IF col < width THEN px(row, col) ELSE 2]

InitCl2 ==
    /\ pc = "ready"
    /\ \/ \E shape \in Cl2Shapes, transparentColorIndex \in {0, 1} :
            \E image \in [0 .. (shape[1] * shape[2] * shape[3] - 1) -> Cl2Colors] :
                /\ args = [width |-> shape[1], height |-> shape[2] * shape[3],
                           pitch |-> shape[1] + Cl2Padding, numFrames |-> shape[3],
                           transparentColorIndex |-> transparentColorIndex]
                /\ src = SurfaceBytes(LAMBDA row, col : image[row * shape[1] + col],
                                      shape[1], shape[2] * shape[3])
       \/ \E upper \in 0 .. 3, lower \in 0 .. 3 :
                /\ args = [width |-> Cl2LongWidth, height |-> 2,
                           pitch |-> Cl2LongWidth + Cl2Padding, numFrames |-> 1,
                           transparentColorIndex |-> 0]
                /\ src = SurfaceBytes(LAMBDA row, col :
                                          LongPixel(IF row = 0 THEN upper ELSE lower, col),
                                      Cl2LongWidth, 2)
    /\ lightTables = LightTablesA
    /\ FullyLitLightTable = NullPtr
    /\ dst = <<>>
    /\ before = dst
    /\ spans = <<>>
    /\ clip = NoClip
    /\ clipY = NoClipY
    /\ fatal = FALSE
    /\ locals = NoLocals

\* SurfaceToCl2 returned the sprite r.
Cl2Returned(r) ==
    /\ dst' = r.celData
    /\ locals' = [width |-> r.width, frameHeight |-> r.frameHeight]
    /\ pc' = "SurfaceToCl2"
    /\ UNCHANGED <<args, lightTables, src, before, spans, clip, clipY, fatal,
                   FullyLitLightTable>>

DoSurfaceToCl2 ==
    /\ pc = "ready"
    /\ Cl2Returned(SurfaceToCl2(src, args.width, args.height, args.pitch, args.numFrames,
                                args.transparentColorIndex))

NextCl2 == DoSurfaceToCl2

SpecCl2 == InitCl2 /\ [][NextCl2]_vars

----------------------------------------------------------------------------
(* Specification SpecMenu: UiMainMenuDialog of DiabloUI/mainmenu.cpp.  The *)
(* globals MainMenuResult, mainmenu_attract_time_out and dwAttractTicks,   *)
(* the tick count and the result are fields of locals; selected is the     *)
(* value of the last call of UiMainMenuSelect, 0 before any.               *)

MAINMENU_SINGLE_PLAYER == 1

MAINMENU_EXIT_DIABLO == 5

MAINMENU_ATTRACT_MODE == 6

\* Milliseconds the tick count advances by in one step, and its cap.
TickStep == 500

MaxTick == 4000

\* attractTimeOut in seconds.
AttractTimeOuts == {0, 1, 2}

UiMainMenuSelect(st, value) ==
    [st EXCEPT !.MainMenuResult = value, !.selected = value]

\* The sum stays far below the width of a DWORD for the tick counts up to
\* MaxTick.
mainmenu_restart_repintro(st) ==
    [st EXCEPT !.dwAttractTicks = st.tick + st.mainmenu_attract_time_out * 1000]

mainmenu_Load(st) == [st EXCEPT !.MainMenuResult = 0]

InitMenu ==
    /\ pc = "ready"
    /\ \E attractTimeOut \in AttractTimeOuts : args = [attractTimeOut |-> attractTimeOut]
    /\ \E tick \in {0, TickStep}, result \in {0, MAINMENU_EXIT_DIABLO} :
          locals = [MainMenuResult |-> result, mainmenu_attract_time_out |-> 0,
                    dwAttractTicks |-> 0, tick |-> tick, selected |-> 0, pdwResult |-> 0]
    /\ lightTables = LightTablesA
    /\ FullyLitLightTable = NullPtr
    /\ src = <<>>
    /\ dst = <<>>
    /\ before = dst
    /\ spans = <<>>
    /\ clip = NoClip
    /\ clipY = NoClipY
    /\ fatal = FALSE

MenuUnchanged ==
    UNCHANGED <<args, lightTables, src, dst, before, spans, clip, clipY, fatal,
                FullyLitLightTable>>

\* UiMainMenuDialog up to the loop: the time out is stored, the menu loaded
\* and the attract timer started.
UiMainMenuDialogEnter ==
    /\ pc = "ready"
    /\ locals' = mainmenu_restart_repintro(
                     mainmenu_Load([locals EXCEPT !.mainmenu_attract_time_out =
                                                      args.attractTimeOut]))
    /\ pc' = "while"
    /\ MenuUnchanged

\* The loop condition MainMenuResult == 0; when it fails the dialog stores
\* the result and returns.
UiMainMenuDialogWhile ==
    /\ pc = "while"
    /\ IF locals.MainMenuResult = 0
       THEN pc' = "UiPollAndRender" /\ UNCHANGED locals
       ELSE pc' = "returned" /\ locals' = [locals EXCEPT !.pdwResult = locals.MainMenuResult]
    /\ MenuUnchanged

\* UiPollAndRender: an event may select the item value (0: none), an event
\* may restart the attract timer, and time passes.
UiPollAndRender ==
    /\ pc = "UiPollAndRender"
    /\ \E value \in 0 .. MAINMENU_EXIT_DIABLO, restart \in BOOLEAN,
          elapsed \in {0, TickStep, 2 * TickStep} :
          /\ value # 0 => value >= MAINMENU_SINGLE_PLAYER
          /\ locals.tick + elapsed <= MaxTick
          /\ LET selected == IF value # 0 THEN UiMainMenuSelect(locals, value) ELSE locals
                 restarted == IF restart THEN mainmenu_restart_repintro(selected)
                              ELSE selected
             IN  locals' = [restarted EXCEPT !.tick = @ + elapsed]
    /\ pc' = "GetTickCount"
    /\ MenuUnchanged

\* if (GetTickCount() >= dwAttractTicks) MainMenuResult = MAINMENU_ATTRACT_MODE
UiMainMenuDialogAttract ==
    /\ pc = "GetTickCount"
    /\ locals' = IF locals.tick >= locals.dwAttractTicks
                 THEN [locals EXCEPT !.MainMenuResult = MAINMENU_ATTRACT_MODE]
                 ELSE locals
    /\ pc' = "while"
    /\ MenuUnchanged

NextMenu ==
    \/ UiMainMenuDialogEnter
    \/ UiMainMenuDialogWhile
    \/ UiPollAndRender
    \/ UiMainMenuDialogAttract

SpecMenu == InitMenu /\ [][NextMenu]_vars

----------------------------------------------------------------------------
(* Specification SpecSplit: a loop over SplitByChar(text, splitBy) of      *)
(* utils/str_split.h.  A string_view into the text is its offset from      *)
(* text.data() and its length; spans collects the slices visited.          *)

\* std::string_view::npos, larger than every length.
npos == 2147483647

SplitChars == {",", "a", "b"}

\* Longest text.
MaxText == 4

\* The view of the whole text.
TextView(text) == [off |-> 0, len |-> Len(text)]

\* view.substr(pos, count) for pos <= view.size().
Substr(view, pos, count) ==
    [off |-> view.off + pos,
     len |-> IF count < view.len - pos THEN count ELSE view.len - pos]

\* view.remove_prefix(n).
RemovePrefix(view, n) == [off |-> view.off + n, len |-> view.len - n]

\* view.find(ch): the position of the first ch in the view, or npos.
Find(text, view, ch) ==
    LET found == {i \in 0 .. (view.len - 1) : text[view.off + i + 1] = ch}
    IN  IF found = {} THEN npos
        ELSE CHOOSE i \in found : \A j \in found : i <= j

\* The characters of a view.
Chars(text, view) == SubSeq(text, view.off + 1, view.off + view.len)

\* SplitByCharIterator::begin: the slice of the iterator.
SplitBegin(text, splitBy) ==
    Substr(TextView(text), 0, Find(text, TextView(text), splitBy))

\* SplitByCharIterator::end.
SplitEnd(text, splitBy) == Substr(TextView(text), Len(text), npos)

\* operator++: the slice after the increment.
Increment(text, splitBy, slice) ==
    LET rest == Substr(TextView(text), slice.off + slice.len, npos)
        skipped == IF rest.len # 0 THEN RemovePrefix(rest, 1) ELSE rest
    IN  Substr(skipped, 0, Find(text, skipped, splitBy))

\* operator==: the data pointers of the slices are equal.
IteratorsEqual(a, b) == a.off = b.off

RECURSIVE Texts(_)
\* The texts of 1 .. n characters.
Texts(n) ==
    IF n = 0 THEN {}
    ELSE Texts(n - 1) \cup [1 .. n -> SplitChars]

InitSplit ==
    /\ pc = "ready"
    /\ \E text \in Texts(MaxText), splitBy \in {",", "a"} :
          args = [text |-> text, splitBy |-> splitBy]
    /\ locals = [slice |-> TextView(<<>>)]
    /\ spans = <<>>
    /\ lightTables = LightTablesA
    /\ FullyLitLightTable = NullPtr
    /\ src = <<>>
    /\ dst = <<>>
    /\ before = dst
    /\ clip = NoClip
    /\ clipY = NoClipY
    /\ fatal = FALSE

SplitUnchanged ==
    UNCHANGED <<args, lightTables, src, dst, before, clip, clipY, fatal,
                FullyLitLightTable>>

\* it = SplitByChar(text, splitBy).begin()
SplitLoopBegin ==
    /\ pc = "ready"
    /\ locals' = [slice |-> SplitBegin(args.text, args.splitBy)]
    /\ pc' = "loop"
    /\ UNCHANGED spans
    /\ SplitUnchanged

\* it != end(): the body sees *it, then ++it.
SplitLoopBody ==
    /\ pc = "loop"
    /\ ~IteratorsEqual(locals.slice, SplitEnd(args.text, args.splitBy))
    /\ spans' = Append(spans, Chars(args.text, locals.slice))
    /\ locals' = [slice |-> Increment(args.text, args.splitBy, locals.slice)]
    /\ UNCHANGED pc
    /\ SplitUnchanged

\* it == end(): the loop is left.
SplitLoopEnd ==
    /\ pc = "loop"
    /\ IteratorsEqual(locals.slice, SplitEnd(args.text, args.splitBy))
    /\ pc' = "done"
    /\ UNCHANGED <<locals, spans>>
    /\ SplitUnchanged

NextSplit == SplitLoopBegin \/ SplitLoopBody \/ SplitLoopEnd

SpecSplit == InitSplit /\ [][NextSplit]_vars

----------------------------------------------------------------------------
(* Claims.                                                                 *)

\* C2: after CalculateClip and after CalculateDunTileClip, for every
\* position, box and viewport, width + left + right = w and
\* height + top + bottom = h.
C2_ClipSums ==
    pc \in {"CalculateClip", "CalculateDunTileClip", "CalculateDiamondClipY"} =>
        /\ clip.width + clip.left + clip.right = args.w
        /\ clip.height + clip.top + clip.bottom = args.h

\* A box clipped on the right and at the bottom, partly visible.
C2_Witness ==
    /\ pc = "CalculateClip"
    /\ clip.right > 0 /\ clip.bottom > 0
    /\ clip.width > 0 /\ clip.height > 0

\* The columns and rows of the box that lie inside the viewport, with y
\* the bottom row and x the left column of the box.
VisibleCols == {c \in args.x .. (args.x + args.w - 1) : 0 <= c /\ c < args.outW}
VisibleRows == {r \in (args.y - args.h + 1) .. args.y : 0 <= r /\ r < args.outH}

\* C3: a box with no pixel inside the viewport gets width <= 0 or
\* height <= 0; a box with a pixel inside gets top, bottom, left, right >= 0
\* and width and height equal to the numbers of visible columns and rows,
\* both positive.
C3_ClipVisible ==
    pc = "CalculateClip" =>
        /\ (VisibleCols = {} \/ VisibleRows = {}) =>
              (clip.width <= 0 \/ clip.height <= 0)
        /\ (VisibleCols # {} /\ VisibleRows # {}) =>
              /\ clip.top >= 0 /\ clip.bottom >= 0
              /\ clip.left >= 0 /\ clip.right >= 0
              /\ clip.width = Cardinality(VisibleCols)
              /\ clip.height = Cardinality(VisibleRows)
              /\ clip.width > 0 /\ clip.height > 0

\* A box cut at the top and on the left, partly visible, and (second
\* disjunct) a box wholly off-screen.
C3_Witness ==
    /\ pc = "CalculateClip"
    /\ clip.top > 0 /\ clip.left > 0
    /\ VisibleCols # {} /\ VisibleRows # {}
    /\ Cardinality(VisibleCols) < args.w

\* The source byte a span from args.s reads for destination address i.
LineSrc(i) == src[args.s + (i - args.d) + 1]

InLineSpan(i) == i >= args.d /\ i < args.d + args.n

\* C5: RenderLineOpaque writes 0 (fully dark), src[i] (fully lit) or
\* lightTable[src[i]] (partially lit) to each of the n bytes of the span and
\* no byte outside it.
C5_OpaqueSpan ==
    pc = "RenderLineOpaque" =>
        \A i \in 0 .. (Len(dst) - 1) :
            IF InLineSpan(i)
            THEN dst[i + 1] =
                    CASE args.light = "FullyDark" -> 0
                      [] args.light = "FullyLit" -> LineSrc(i)
                      [] args.light = "PartiallyLit" ->
                            lightTables[args.tbl + LineSrc(i) + 1]
            ELSE dst[i + 1] = before[i + 1]

\* A partially lit opaque span of the longest length that changed memory.
C5_Witness ==
    /\ pc = "RenderLineOpaque"
    /\ args.light = "PartiallyLit"
    /\ args.n = MaxSpan
    /\ args.d = 1
    /\ \E i \in 1 .. Len(dst) : dst[i] # before[i]

\* C6: RenderLineTransparent sets each of the n bytes of the span to
\* transparencyMatrix[0][old], [old][src[i]] or [old][lightTable[src[i]]]
\* for the destination byte old from before the call, and no byte outside.
C6_BlendedSpan ==
    pc = "RenderLineTransparent" =>
        \A i \in 0 .. (Len(dst) - 1) :
            IF InLineSpan(i)
            THEN dst[i + 1] =
                    CASE args.light = "FullyDark" ->
                            paletteTransparencyLookup(0, before[i + 1])
                      [] args.light = "FullyLit" ->
                            paletteTransparencyLookup(before[i + 1], LineSrc(i))
                      [] args.light = "PartiallyLit" ->
                            paletteTransparencyLookup(before[i + 1],
                                lightTables[args.tbl + LineSrc(i) + 1])
            ELSE dst[i + 1] = before[i + 1]

\* A fully dark blended span of the longest length that changed memory.
C6_Witness ==
    /\ pc = "RenderLineTransparent"
    /\ args.light = "FullyDark"
    /\ args.n = MaxSpan
    /\ \E i \in 1 .. Len(dst) : dst[i] # before[i]


\* The addresses the spans ss write.
Written(ss) == UNION {ss[i].d .. (ss[i].d + ss[i].n - 1) : i \in 1 .. Len(ss)}

\* The Clip of a tile that is not clipped.
ZeroClip(tile) == MkClip(GetTileHeight(tile), 0, 0, 0, 0)

\* The locals of the Full routine on the arguments and the source of the
\* state.
FullDraw ==
    RenderDispatch(args.tile, "Full", args.maskType, args.lightTableIndex,
                   At(args.x, args.y, RoutinePitch), RoutinePitch, 0, src,
                   ZeroClip(args.tile)).st

ClippedRegimes == {"ClipVertical", "ClipLeftAndVertical", "ClipRightAndVertical"}

MarkSpan(mem, sp) ==
    LET lo == IF sp.d < 0 THEN 0 ELSE sp.d
        hi == IF sp.d + sp.n > Len(mem) THEN Len(mem) ELSE sp.d + sp.n
    IN  IF lo >= hi THEN mem
        ELSE SubSeq(mem, 1, lo)
             \o [j \in 1 .. (hi - lo) |-> IF mem[lo + j] = "N" THEN sp.k ELSE "X"]
             \o SubSeq(mem, hi + 1, Len(mem))

RECURSIVE MarkRange(_, _, _, _)
MarkRange(mem, ss, lo, hi) ==
    IF lo > hi THEN mem
    ELSE IF lo = hi THEN MarkSpan(mem, ss[lo])
    ELSE LET mid == (lo + hi) \div 2
             left == MarkRange(mem, ss, lo, mid)
         IN  IF Len(left) < 0 THEN left ELSE MarkRange(left, ss, mid + 1, hi)

\* For every byte of a memory of the given size how the spans ss treat it:
\* "N" not written, "O" opaque-written, "T" blended.
KindMap(ss, size) == MarkRange([i \in 1 .. size |-> "N"], ss, 1, Len(ss))

\* How the draw of the state treated the pixel in row r (from the bottom),
\* column c of the tile, given its kind map km.
KindOf(km, r, c) == km[At(args.x + c, args.y - r, RoutinePitch) + 1]

RECURSIVE LiteralIn(_, _, _, _)
\* TRUE if column c lies in a literal run of the runs rs[i..] that start at
\* column col.
LiteralIn(rs, i, col, c) ==
    IF i > Len(rs) THEN FALSE
    ELSE LET n == IF rs[i] > 0 THEN rs[i] ELSE -rs[i]
         IN  IF c < col + n THEN rs[i] > 0 ELSE LiteralIn(rs, i + 1, col + n, c)

\* TRUE if the unclipped tile of the state has a pixel in row r, column c:
\* a literal pixel of a TransparentSquare, a pixel inside the shape of the
\* others.
HasPixel(r, c) ==
    CASE args.tile = "Square" -> TRUE
      [] args.tile = "TransparentSquare" -> LiteralIn(RowRuns(args.seg, r, 0, 0), 1, 0, c)
      [] args.tile = "LeftTriangle" ->
           IF r < LowerHeight THEN c >= Width - XStep * (r + 1)
           ELSE c >= XStep * (r - LowerHeight + 1)
      [] args.tile = "RightTriangle" ->
           IF r < LowerHeight THEN c < XStep * (r + 1)
           ELSE c < Width - XStep * (r - LowerHeight + 1)
      [] args.tile = "LeftTrapezoid" -> r >= LowerHeight \/ c >= Width - XStep * (r + 1)
      [] args.tile = "RightTrapezoid" -> r >= LowerHeight \/ c < XStep * (r + 1)

\* TRUE if row r, column c of the tile is inside the Clip of the state.
Visible(r, c) ==
    /\ r >= args.clip.bottom /\ r < GetTileHeight(args.tile) - args.clip.top
    /\ c >= args.clip.left /\ c < Width - args.clip.right

TileRows == 0 .. (GetTileHeight(args.tile) - 1)

TileCols == 0 .. (Width - 1)

\* C8: in every clip regime and for every tile shape, with MaskType::Solid
\* every drawn pixel of the tile is opaque-written and none is blended, and
\* with MaskType::Transparent every drawn pixel is blended and none is
\* opaque-written, in the lower triangle as in the upper rows.
C8_SolidOpaqueTransparentBlended ==
    (pc \in ClipRegimes /\ args.maskType \in {"Solid", "Transparent"}) =>
        LET km == KindMap(spans, Len(dst))
            kind == IF args.maskType = "Solid" THEN "O" ELSE "T"
        IN  /\ \A i \in 1 .. Len(spans) : spans[i].n > 0 => spans[i].k = kind
            /\ \A r \in TileRows, c \in TileCols :
                  (HasPixel(r, c) /\ Visible(r, c)) => KindOf(km, r, c) = kind

\* A trapezoid drawn with a bottom clip inside the lower triangle, so that
\* rows of the lower triangle and of the upper half are both blended.
C8_Witness ==
    /\ pc = "ClipVertical"
    /\ args.tile = "LeftTrapezoid" /\ args.maskType = "Transparent"
    /\ args.clip.bottom > 0 /\ args.clip.bottom < LowerHeight
    /\ \E i \in 1 .. Len(spans) : spans[i].n = Width /\ spans[i].k = "T"
    /\ \E i \in 1 .. Len(spans) : spans[i].n > 0 /\ spans[i].n < Width /\ spans[i].k = "T"


\* The masks with a diagonal boundary between an opaque and a blended part
\* that the Full routine of the tile of the state accepts.
DiagonalMasks ==
    CASE args.tile = "TransparentSquare" -> {"Left", "Right"}
      [] args.tile = "LeftTrapezoid" -> {"Left"}
      [] args.tile = "RightTrapezoid" -> {"Right"}
      [] OTHER -> {}

C10_FoliageMask ==
    (pc = "Full" /\ args.tile = "TransparentSquare"
         /\ args.maskType \in {"LeftFoliage", "RightFoliage"}) =>
        LET km == KindMap(spans, Len(dst))
        IN  \A r \in TileRows, c \in TileCols :
                KindOf(km, r, c) =
                    IF ~HasPixel(r, c) \/ r < LowerHeight THEN "N"
                    ELSE IF args.maskType = "LeftFoliage"
                         THEN (IF c < 2 * (r - LowerHeight) + 2 THEN "O" ELSE "N")
                         ELSE (IF c >= Width - (2 * (r - LowerHeight) + 2) THEN "O" ELSE "N")

\* Literal pixel values that differ from those of RoutineImage everywhere.
OtherImage == [a |-> 3, b |-> 0]

\* C7: in every clip regime, with lightTableIndex = 0 the destination does
\* not depend on the contents of LightTables; with lightTableIndex =
\* LightsMax it does not depend on the values of the literal source pixels;
\* with any other index every pixel is drawn partially lit through the table
\* at offset 256 * lightTableIndex.
C7_LightType ==
    (pc \in ClipRegimes /\ ~fatal) =>
        /\ args.lightTableIndex = 0 =>
              /\ lightTables = LightTablesA
              /\ dst = Paint(before, spans, LightTablesB, src)
        /\ args.lightTableIndex = LightsMax =>
              LET other == Source(args.tile, args.seg, OtherImage.a, OtherImage.b)
                  r == RenderDispatch(args.tile, pc, args.maskType, args.lightTableIndex,
                                      At(args.x + args.clip.left, args.y - args.clip.bottom,
                                         RoutinePitch),
                                      RoutinePitch, 0, other, args.clip)
              IN  /\ other # src
                  /\ dst = Paint(before, r.st.spans, lightTables, other)
        /\ args.lightTableIndex \notin {0, LightsMax} =>
              \A i \in 1 .. Len(spans) :
                  spans[i].n > 0 =>
                      /\ spans[i].light = "PartiallyLit"
                      /\ spans[i].tbl = PalSize * args.lightTableIndex

\* A fully lit draw clipped on the left that changed the destination.
C7_Witness ==
    /\ pc = "ClipLeftAndVertical" /\ ~fatal /\ dst # before
    /\ args.clip.left > 0
    /\ args.lightTableIndex = 0


\* The entry points that skip a tile whose Clip has no width or no height.
SkippingEntryPoints ==
    {"RenderTileClipLeftAndVertical", "RenderTileClipRightAndVertical",
     "world_draw_black_tile", "RenderTile", "RenderFullyLitOpaqueTile"}

\* C4: whenever the computed Clip has width <= 0 or height <= 0,
\* RenderTileClipLeftAndVertical, RenderTileClipRightAndVertical,
\* world_draw_black_tile, RenderTile and RenderFullyLitOpaqueTile return
\* without calling app_fatal and with every byte of the destination
\* unchanged, and so does RenderTileClipVertical whenever height <= 0.
C4_OffScreenSkipped ==
    (\/ pc \in SkippingEntryPoints /\ (clip.width <= 0 \/ clip.height <= 0)
     \/ pc = "RenderTileClipVertical" /\ clip.height <= 0) =>
        /\ ~fatal
        /\ ~locals.failed
        /\ spans = <<>>
        /\ dst = before

\* RenderTileClipLeftAndVertical was called, with a mask type the tile
\* shape does not accept, for a tile to the left of the surface whose rows
\* are inside it.
C4_Witness ==
    /\ pc = "RenderTileClipLeftAndVertical"
    /\ args.x + Width <= 0 /\ args.y >= Height - 1 /\ args.y < OutH
    /\ args.maskType \notin AcceptedMasks(args.tile)
    /\ clip.width <= 0 /\ clip.height > 0
    /\ dst = before /\ ~fatal


FoliageMasks == {"LeftFoliage", "RightFoliage"}

\* C11: with LeftFoliage or RightFoliage, for every light type, regime and
\* clip, no pixel is blended: every byte of the destination is either
\* opaque-written or holds the value it held before the draw.
C11_FoliageSkips ==
    (pc \in ClipRegimes /\ args.maskType \in FoliageMasks) =>
        LET km == KindMap(spans, Len(dst))
        IN  /\ \A i \in 1 .. Len(spans) : spans[i].n > 0 => spans[i].k = "O"
            /\ \A a \in 1 .. Len(dst) :
                  /\ km[a] \in {"N", "O"}
                  /\ km[a] = "N" => dst[a] = before[a]

\* A TransparentSquare clipped on the left and drawn with LeftFoliage: in a
\* row of the upper half a literal pixel is opaque-written and a literal
\* pixel to its right, inside the clip, is skipped.
C11_Witness ==
    /\ pc = "ClipLeftAndVertical" /\ args.maskType = "LeftFoliage"
    /\ args.clip.left > 0
    /\ LET km == KindMap(spans, Len(dst))
       IN  \E r \in TileRows, c1, c2 \in TileCols :
               /\ r >= LowerHeight /\ c1 < c2
               /\ Visible(r, c1) /\ Visible(r, c2)
               /\ HasPixel(r, c1) /\ HasPixel(r, c2)
               /\ KindOf(km, r, c1) = "O" /\ KindOf(km, r, c2) = "N"


TileEntryPoints ==
    {"RenderTileFull", "RenderTileClipVertical", "RenderTileClipLeftAndVertical",
     "RenderTileClipRightAndVertical"}

\* The last call was to a tile entry point and passed its early returns and
\* asserts: a mask dispatch function was called.
Dispatched ==
    /\ pc \in TileEntryPoints
    /\ LET c == TileClip(<<args.tile, args.seg>>, <<args.x, args.y>>)
       IN  CASE pc = "RenderTileFull" ->
                    c.width = Width /\ c.height = GetTileHeight(args.tile)
             [] pc = "RenderTileClipVertical" -> c.height > 0
             [] OTHER -> c.width > 0 /\ c.height > 0

\* The clip regime of the dispatch function a dispatching call reached.
DispatchedRegime ==
    LET c == TileClip(<<args.tile, args.seg>>, <<args.x, args.y>>)
    IN  IF c.width = Width /\ c.height = GetTileHeight(args.tile) THEN "Full"
        ELSE CASE pc = "RenderTileClipVertical" -> "ClipVertical"
               [] pc = "RenderTileClipLeftAndVertical" -> "ClipLeftAndVertical"
               [] OTHER -> "ClipRightAndVertical"

ValidMasks(tile) ==
    CASE tile \in {"Square", "LeftTriangle", "RightTriangle"} -> {"Solid", "Transparent"}
      [] tile = "LeftTrapezoid" -> {"Solid", "Transparent", "Left"}
      [] tile = "RightTrapezoid" -> {"Solid", "Transparent", "Right"}
      [] tile = "TransparentSquare" ->
             {"Solid", "Transparent", "Left", "Right", "LeftFoliage", "RightFoliage"}

C13_MaskTypeDoc ==
    Dispatched =>
        /\ args.maskType = "Right" =>
              (~fatal <=> args.tile \in {"LeftTrapezoid", "TransparentSquare"})
        /\ args.maskType = "Left" =>
              (~fatal <=> args.tile \in {"RightTrapezoid", "TransparentSquare"})


\* C14: a Square that is fully on-screen, drawn with Solid at light level 0
\* at (x, y): the pixel at (x + c, y - r) is the source byte 32 r + c for r
\* and c in 0 .. 31, and every other byte of the destination is unchanged.
C14_SquareCopy ==
    (/\ Dispatched /\ DispatchedRegime = "Full"
     /\ args.tile = "Square" /\ args.maskType = "Solid" /\ args.lightTableIndex = 0) =>
        \A px \in 0 .. (OutW - 1), py \in 0 .. (OutH - 1) :
            LET c == px - args.x
                r == args.y - py
                a == At(px, py, OutPitch) + 1
            IN  dst[a] = IF c \in 0 .. 31 /\ r \in 0 .. 31
                         THEN src[32 * r + c + 1]
                         ELSE before[a]

\* A fully lit Solid Square inside the surface was drawn by
\* RenderTileFull and changed the destination.
C14_Witness ==
    /\ pc = "RenderTileFull" /\ Dispatched /\ ~fatal
    /\ args.tile = "Square" /\ args.maskType = "Solid" /\ args.lightTableIndex = 0
    /\ Len(spans) = Height
    /\ dst # before


\* C15: a TransparentSquare drawn with Transparent or Solid at a partial
\* light level, clipped by 1 .. 31 columns on the left and by any rows,
\* whatever the runs of its rows: every pixel inside the clip at a literal
\* position is the lit source pixel of the same tile coordinate, blended
\* with the old destination (Transparent) or as it is (Solid); every other
\* byte of the destination is unchanged.
C15_LeftClippedSquare ==
    (/\ pc = "ClipLeftAndVertical" /\ args.tile = "TransparentSquare"
     /\ args.maskType \in {"Solid", "Transparent"}
     /\ args.lightTableIndex \in 1 .. (LightsMax - 1)
     /\ args.clip.left \in 1 .. 31 /\ ~args.bad) =>
        \A px \in 0 .. (RoutinePitch - 1), py \in 0 .. (RoutineRows - 1) :
            LET c == px - args.x
                r == args.y - py
                a == At(px, py, RoutinePitch) + 1
                lit == lightTables[LightTableOffset(args.lightTableIndex)
                                   + PixelValue(RoutineImage.a, RoutineImage.b, r, c) + 1]
            IN  dst[a] = IF /\ r \in TileRows /\ c \in TileCols
                            /\ Visible(r, c) /\ HasPixel(r, c)
                         THEN (IF args.maskType = "Solid" THEN lit
                               ELSE paletteTransparencyLookup(before[a], lit))
                         ELSE before[a]

\* TRUE if a literal run of row r of the frame of the state starts left of
\* column c and covers it.
Straddles(r, c) ==
    c > 0 /\ LiteralIn(RowRuns(args.seg, r, 0, 0), 1, 0, c - 1)
          /\ LiteralIn(RowRuns(args.seg, r, 0, 0), 1, 0, c)
          /\ \E j \in 1 .. Len(spans) :
                 spans[j].d = At(args.x + c, args.y - r, RoutinePitch) /\ spans[j].n > 0

\* A blended TransparentSquare with rows of several runs, clipped on the
\* left and at the bottom, in which a literal run straddles the left clip
\* boundary and its visible part was drawn.
C15_Witness ==
    /\ pc = "ClipLeftAndVertical" /\ args.maskType = "Transparent"
    /\ args.lightTableIndex = 1 /\ args.seg = 1 /\ ~args.bad
    /\ args.clip.left = 9 /\ args.clip.bottom > 0
    /\ \E r \in TileRows : Visible(r, args.clip.left) /\ Straddles(r, args.clip.left)
    /\ dst # before


\* The first and the last column of row r (counted from the bottom row) of
\* the 64x31 diamond: 30 - 2 r .. 33 + 2 r in rows 0 .. 15,
\* 2 (r - 15) .. 63 - 2 (r - 15) in rows 16 .. 30.
DiamondFirst(r) == IF r <= 15 THEN 30 - 2 * r ELSE 2 * (r - 15)

DiamondLast(r) == IF r <= 15 THEN 33 + 2 * r ELSE 63 - 2 * (r - 15)

\* The bytes row of a surface w wide holds before the draw, with columns
\* lo .. hi, as far as they are on the surface, set to 0.
ZeroedRow(row, w, lo, hi) ==
    LET Cut(first, last) ==
            IF first > last THEN row
            ELSE SubSeq(row, 1, first) \o [j \in 1 .. (last - first + 1) |-> 0]
                     \o SubSeq(row, last + 2, w)
    IN  Cut(IF lo < 0 THEN 0 ELSE lo, IF hi > w - 1 THEN w - 1 ELSE hi)

\* C16: on a surface at least 64 pixels wide and 31 tall,
\* world_draw_black_tile(sx, sy) sets to 0 exactly the pixels of the diamond
\* with bottom row sy and left column sx that are inside the surface and
\* changes no other pixel; it only calls memset, reading no source.
C16_BlackDiamond ==
    (pc = "world_draw_black_tile" /\ Len(dst) = BlackW * BlackH) =>
        /\ \A py \in 0 .. (BlackH - 1) :
              SubSeq(dst, py * BlackW + 1, (py + 1) * BlackW)
                  = IF args.y - py \in 0 .. 30
                    THEN ZeroedRow(SubSeq(before, py * BlackW + 1, (py + 1) * BlackW),
                                   BlackW,
                                   args.x + DiamondFirst(args.y - py),
                                   args.x + DiamondLast(args.y - py))
                    ELSE SubSeq(before, py * BlackW + 1, (py + 1) * BlackW)
        /\ \A i \in 1 .. Len(spans) : spans[i].k = "O" /\ spans[i].light = "FullyDark"
        /\ ~locals.ub

\* The lower 16 rows of the diamond are below the surface and it is cut on
\* the left: its upper 15 rows are filled.
C16_Witness ==
    /\ pc = "world_draw_black_tile" /\ Len(dst) = BlackW * BlackH
    /\ args.y = BlackH - 1 + LowerHeight /\ args.x = 0 - 7
    /\ clipY.lowerBottom = LowerHeight /\ clipY.upperBottom = 0
    /\ Len(spans) = TriangleUpperHeight
    /\ dst[At(0, BlackH - 1, BlackW) + 1] = 0


\* C17: when the runs of a scanline of a TransparentSquare source sum to
\* more than 32 (a run crosses the end of the row), the full and the
\* clipped decoder both reach a failure state at that scanline: an assert
\* does not hold.
C17_RleMismatchFails ==
    (pc \in ClipRegimes /\ args.tile = "TransparentSquare" /\ args.bad) =>
        locals.failed


\* C18: a 32x32 image with transparent positions, encoded as runs in any
\* valid way and decoded by RenderTransparentSquareFull with Solid at light
\* level 0: every non-transparent pixel is written at its column and row,
\* every other byte of the destination is unchanged, however the rows were
\* split into runs.
C18_RleRoundTrip ==
    (/\ pc = "Full" /\ args.tile = "TransparentSquare" /\ args.maskType = "Solid"
     /\ args.lightTableIndex = 0 /\ ~args.bad) =>
        \A px \in 0 .. (RoutinePitch - 1), py \in 0 .. (RoutineRows - 1) :
            dst[At(px, py, RoutinePitch) + 1]
                = IF /\ args.y - py \in TileRows /\ px - args.x \in TileCols
                     /\ HasPixel(args.y - py, px - args.x)
                  THEN PixelValue(RoutineImage.a, RoutineImage.b, args.y - py, px - args.x)
                  ELSE before[At(px, py, RoutinePitch) + 1]

\* An image with literal and transparent pixels in a row, encoded with
\* every run split in two, was decoded: the source has more runs than the
\* decoder drew spans for rows, and the destination changed.
C18_Witness ==
    /\ pc = "Full" /\ args.tile = "TransparentSquare" /\ args.maskType = "Solid"
    /\ args.lightTableIndex = 0 /\ ~args.bad
    /\ args.seg = 1 /\ args.split = 1
    /\ \E c1, c2 \in TileCols : HasPixel(0, c1) /\ ~HasPixel(0, c2)
    /\ Len(spans) > Height
    /\ dst # before


ShapedTiles == {"LeftTriangle", "RightTriangle", "LeftTrapezoid", "RightTrapezoid"}

\* The first column and the column after the last of row r (0 the bottom
\* row) of the unclipped tile: lower row i = r + 1, upper row i = r - 15.
ShapeFrom(tile, r) ==
    CASE tile = "LeftTriangle" -> (IF r < 16 THEN 32 - 2 * (r + 1) ELSE 2 * (r - 15))
      [] tile = "LeftTrapezoid" -> (IF r < 16 THEN 32 - 2 * (r + 1) ELSE 0)
      [] OTHER -> 0

ShapeTo(tile, r) ==
    CASE tile = "RightTriangle" -> (IF r < 16 THEN 2 * (r + 1) ELSE 32 - 2 * (r - 15))
      [] tile = "RightTrapezoid" -> (IF r < 16 THEN 2 * (r + 1) ELSE 32)
      [] OTHER -> 32

\* The padding bytes of row r: 2 in the lower and upper rows i of a
\* triangle with i odd, none in the full rows of a trapezoid.
ShapePadding(tile, r) ==
    IF r < 16 THEN 2 * ((r + 1) % 2)
    ELSE IF tile \in {"LeftTriangle", "RightTriangle"} THEN 2 * ((r - 15) % 2)
    ELSE 0

RECURSIVE ShapeConsumed(_, _)
\* The source bytes of rows 0 .. r - 1: their pixels and padding.
ShapeConsumed(tile, r) ==
    IF r = 0 THEN 0
    ELSE ShapeConsumed(tile, r - 1)
             + (ShapeTo(tile, r - 1) - ShapeFrom(tile, r - 1)) + ShapePadding(tile, r - 1)

\* The source offset of the pixel in row r, column c: the padding precedes
\* the pixels of a row in the left shapes and follows them in the right
\* ones.
ShapeSrc(tile, r, c) ==
    ShapeConsumed(tile, r) + (c - ShapeFrom(tile, r))
        + (IF tile \in {"LeftTriangle", "LeftTrapezoid"} THEN ShapePadding(tile, r) ELSE 0)

\* C19: unclipped, a LeftTriangle writes columns [32 - 2i, 32) of lower row
\* i = 1 .. 16 and [2i, 32) of upper row i = 1 .. 15, a RightTriangle
\* [0, 2i) and [0, 32 - 2i), a trapezoid the lower rows of its triangle and
\* 16 full rows; nothing else is written, and a lower or upper row i of a
\* triangle consumes 2 padding source bytes exactly when i is odd.
C19_ShapeGeometry ==
    (pc = "Full" /\ args.tile \in ShapedTiles) =>
        LET km == KindMap(spans, Len(dst))
            rows == GetTileHeight(args.tile)
        IN  /\ rows = IF args.tile \in {"LeftTriangle", "RightTriangle"} THEN 31 ELSE 32
            /\ \A px \in 0 .. (RoutinePitch - 1), py \in 0 .. (RoutineRows - 1) :
                  (km[At(px, py, RoutinePitch) + 1] # "N")
                      <=> /\ args.y - py \in 0 .. (rows - 1)
                          /\ px - args.x >= ShapeFrom(args.tile, args.y - py)
                          /\ px - args.x < ShapeTo(args.tile, args.y - py)
            /\ \A j \in 1 .. Len(spans) :
                  spans[j].n > 0 =>
                      spans[j].s = ShapeSrc(args.tile,
                                            args.y - (spans[j].d \div RoutinePitch),
                                            (spans[j].d % RoutinePitch) - args.x)
            /\ locals.src = ShapeConsumed(args.tile, rows)
            /\ OutOfBounds(spans, Len(dst)) = {}

\* An unclipped RightTriangle was drawn: 31 rows, the bottom one of 2
\* pixels, the widest of 32, the top one of 2.
C19_Witness ==
    /\ pc = "Full" /\ args.tile = "RightTriangle"
    /\ Len(spans) = 31
    /\ spans[1].n = 2 /\ spans[16].n = 32 /\ spans[31].n = 2
    /\ spans[2].s = 4
    /\ dst # before


\* C20: a LeftTrapezoid with mask Left and a RightTrapezoid with mask
\* Right, in the three clipped regimes and for every clip: each visible
\* pixel of upper row 16 + k is blended or opaque-written as the unclipped
\* routine does it, the boundary being at column 2k (Left: blended to its
\* left) or 32 - 2k (Right: blended from it on).
C20_ClippedTrapezoidMask ==
    (/\ pc \in ClipRegimes \ {"Full"}
     /\ \/ args.tile = "LeftTrapezoid" /\ args.maskType = "Left"
        \/ args.tile = "RightTrapezoid" /\ args.maskType = "Right") =>
        LET km == KindMap(spans, Len(dst))
        IN  \A r \in LowerHeight .. (Height - 1), c \in TileCols :
                Visible(r, c) =>
                    KindOf(km, r, c) =
                        IF args.maskType = "Left"
                        THEN (IF c < 2 * (r - LowerHeight) THEN "T" ELSE "O")
                        ELSE (IF c < Width - 2 * (r - LowerHeight) THEN "O" ELSE "T")


\* TRUE if the kind maps km and full treat every pixel of the tile inside
\* the Clip of the state the same way.
SameVisibleKinds(km, full) ==
    \A r \in TileRows, c \in TileCols :
        Visible(r, c) => KindOf(km, r, c) = KindOf(full, r, c)

\* C21: a TransparentSquare with mask Left, Right, LeftFoliage or
\* RightFoliage clipped on the left only by 1 .. 31 columns, with any
\* vertical clip and any split of the rows into runs: every visible pixel
\* is opaque-written, blended or skipped as the unclipped routine treats
\* the pixel of the same tile coordinate.
C21_LeftClippedMask ==
    (/\ pc = "ClipLeftAndVertical" /\ args.tile = "TransparentSquare"
     /\ args.maskType \in DiagonalMasks \cup FoliageMasks
     /\ args.clip.left \in 1 .. 31 /\ args.clip.right = 0 /\ ~args.bad) =>
        SameVisibleKinds(KindMap(spans, Len(dst)), KindMap(FullDraw.spans, Len(dst)))

\* C22: the same for a TransparentSquare clipped on the right only by
\* 1 .. 31 columns: the mask boundary of a row stays at its tile column.
C22_RightClippedMask ==
    (/\ pc = "ClipRightAndVertical" /\ args.tile = "TransparentSquare"
     /\ args.maskType \in DiagonalMasks \cup FoliageMasks
     /\ args.clip.right \in 1 .. 31 /\ args.clip.left = 0 /\ ~args.bad) =>
        SameVisibleKinds(KindMap(spans, Len(dst)), KindMap(FullDraw.spans, Len(dst)))


\* The pixels the spans ss write: <<destination address, source offset,
\* kind of write, light type, light table>>.
PixelSet(ss) ==
    UNION {{<<ss[i].d + j, ss[i].s + j, ss[i].k, ss[i].light, ss[i].tbl>> :
               j \in 0 .. (ss[i].n - 1)} : i \in 1 .. Len(ss)}

\* The tile row (0 the bottom row) and the tile column of the pixel p.
PixelRow(p) == args.y - (p[1] \div RoutinePitch)

PixelCol(p) == (p[1] % RoutinePitch) - args.x

\* The rows of the triangles of the tile: every row of a triangle tile, the
\* lower rows of a trapezoid.
InTriangle(p) ==
    args.tile \in {"LeftTrapezoid", "RightTrapezoid"} => PixelRow(p) < LowerHeight

\* The source bytes the clipped routines skip for the clipped bottom rows.
TriangleSourceSkip(cy) ==
    CalculateTriangleSourceSkipLowerBottom(cy.lowerBottom)
        + (IF args.tile \in {"LeftTriangle", "RightTriangle"}
           THEN CalculateTriangleSourceSkipUpperBottom(cy.upperBottom) ELSE 0)

\* C23: a triangle, or the lower triangle of a trapezoid, with
\* MaskType::Solid or MaskType::Transparent in the vertical, left and
\* vertical, and right and vertical regimes, under every Clip of a viewport
\* at least 32 wide and high: the clipped routine writes exactly the pixels
\* of the unclipped shape that lie inside the Clip, each in the same way
\* from the same source byte, and the source bytes skipped for the clipped
\* bottom rows are those the unclipped loops consume for these rows.
C23_ClippedTriangle ==
    (/\ pc \in ClippedRegimes /\ args.tile \in TriangleTiles
     /\ args.maskType \in {"Solid", "Transparent"}) =>
        /\ {p \in PixelSet(spans) : InTriangle(p)}
               = {p \in PixelSet(FullDraw.spans) :
                     InTriangle(p) /\ Visible(PixelRow(p), PixelCol(p))}
        /\ TriangleSourceSkip(CalculateDiamondClipY(
               args.clip, GetTileHeight(args.tile) - LowerHeight))
               = ShapeConsumed(args.tile,
                     IF args.tile \in {"LeftTriangle", "RightTriangle"}
                     THEN args.clip.bottom
                     ELSE IF args.clip.bottom > LowerHeight THEN LowerHeight
                     ELSE args.clip.bottom)

C23_Witness ==
    /\ pc = "ClipLeftAndVertical" /\ args.tile = "LeftTriangle"
    /\ args.maskType = "Transparent"
    /\ args.clip.left = 16 /\ args.clip.bottom = 17
    /\ spans # <<>>


\* C24: for every Clip of CalculateClip with height > 0, at any position
\* and viewport height, CalculateDiamondClipY splits the vertical clip
\* exactly between the lower and the upper triangle: lowerBottom +
\* upperBottom = clip.bottom, lowerTop + upperTop = clip.top, all four are
\* >= 0, lowerBottom <= 16 and upperTop <= UpperHeight, so the rows the two
\* halves draw add up to clip.height.
C24_DiamondClipYSplit ==
    pc = "CalculateDiamondClipY" =>
        LET UpperHeight == args.h - LowerHeight
        IN  /\ clipY.lowerBottom + clipY.upperBottom = clip.bottom
            /\ clipY.lowerTop + clipY.upperTop = clip.top
            /\ clipY.lowerBottom >= 0 /\ clipY.upperBottom >= 0
            /\ clipY.lowerTop >= 0 /\ clipY.upperTop >= 0
            /\ clipY.lowerBottom <= LowerHeight
            /\ clipY.upperTop <= UpperHeight
            /\ (LowerHeight - clipY.lowerBottom - clipY.lowerTop)
                   + (UpperHeight - clipY.upperBottom - clipY.upperTop) = clip.height


RECURSIVE RunBytes(_, _)
\* The source bytes of the runs rs[i..]: a length byte each and the pixels
\* of the literal runs.
RunBytes(rs, i) ==
    IF i > Len(rs) THEN 0
    ELSE 1 + (IF rs[i] > 0 THEN rs[i] ELSE 0) + RunBytes(rs, i + 1)

RECURSIVE RowStarts(_, _, _)
\* The source offsets of the first run byte of rows r .. Height - 1 of the
\* encoding e, and the size of the source, when row r starts at offset at.
RowStarts(e, r, at) ==
    IF r >= Height THEN <<at>>
    ELSE <<at>> \o RowStarts(e, r + 1, at + RunBytes(SquareRowRuns(e, r), 1))

SquareRowStarts ==
    Tabulate(LAMBDA e : RowStarts(e, 0, 0), {e \in SquareEncodings : ~e[3]})

\* TRUE if every span of ss reads from the run bytes of one drawn row of
\* the Clip c, after the first run byte of the row.
SpansInRows(ss, starts, c) ==
    \A i \in 1 .. Len(ss) :
        ss[i].n > 0 =>
            \E r \in c.bottom .. (c.bottom + c.height - 1) :
                /\ starts[r + 1] < ss[i].s
                /\ ss[i].s + ss[i].n <= starts[r + 2]

\* C25: for a source whose 32 scanlines have runs summing to 32 and a Clip
\* with left + width + right = 32 and bottom + height + top = 32,
\* RenderTransparentSquareClipped starts every drawn scanline at its first
\* run byte, consumes the bytes of clip.bottom + clip.height scanlines, and
\* neither assertion fails, also when a run straddles the left or the right
\* clip boundary.
C25_ClippedSquareCursor ==
    (/\ pc \in ClippedRegimes \cup {"Clipped"} /\ args.tile = "TransparentSquare"
     /\ ~args.bad) =>
        /\ ~locals.failed
        /\ ~locals.ub
        /\ locals.src = SquareRowStarts[<<args.seg, args.split, FALSE>>][
                             args.clip.bottom + args.clip.height + 1]
        /\ SpansInRows(spans, SquareRowStarts[<<args.seg, args.split, FALSE>>], clip)

\* Runs straddle both clip boundaries of a tile cut on both sides and at the
\* top and the bottom.
C25_Witness ==
    /\ pc = "Clipped" /\ args.tile = "TransparentSquare" /\ ~args.bad
    /\ args.seg = 1 /\ args.split = 0
    /\ clip.left = 10 /\ clip.right = 10 /\ clip.bottom = 5 /\ clip.top = 3
    /\ \E r \in clip.bottom .. (clip.bottom + clip.height - 1) :
          /\ LiteralIn(RowRuns(args.seg, r, 0, 0), 1, 0, clip.left - 1)
          /\ LiteralIn(RowRuns(args.seg, r, 0, 0), 1, 0, clip.left)
    /\ \E r \in clip.bottom .. (clip.bottom + clip.height - 1) :
          /\ LiteralIn(RowRuns(args.seg, r, 0, 0), 1, 0, Width - clip.right - 1)
          /\ LiteralIn(RowRuns(args.seg, r, 0, 0), 1, 0, Width - clip.right)
    /\ spans # <<>>
    /\ locals.src > 0


\* TRUE if the span sp writes only pixels (x, y) with 0 <= x < w and
\* 0 <= y < h of a surface with the given pitch.
InsideSurface(sp, w, h, pitch) ==
    sp.n > 0 =>
        /\ sp.d >= 0
        /\ sp.d \div pitch < h
        /\ (sp.d % pitch) + sp.n <= w

\* C26: for every sx, sy and every viewport size, also a viewport narrower
\* than 64 or lower than 31 that clips the tile on two opposite sides,
\* world_draw_black_tile writes only pixels (x, y) with 0 <= x < W and
\* 0 <= y < H.
C26_BlackTileInBounds ==
    pc = "world_draw_black_tile" =>
        \A i \in 1 .. Len(spans) :
            InsideSurface(spans[i], args.outW, args.outH, args.outW + BlackPadding)


ReadLE32(bytes, pos) ==
    bytes[pos + 1] + 256 * bytes[pos + 2] + 65536 * bytes[pos + 3]
        + 16777216 * bytes[pos + 4]

\* The run bytes of a frame: from after its frame header to the offset of
\* the next frame or the end of the file.
FrameRuns(celData, frame) ==
    SubSeq(celData, ReadLE32(celData, 4 * frame) + FrameHeaderSize + 1,
           ReadLE32(celData, 4 * (frame + 1)))

RECURSIVE Cl2Decode(_, _, _)
\* The pixels the runs from runs[i] on stand for: b in 0x01 .. 0x7F is b
\* transparent pixels, b in 0x80 .. 0xBE a fill of 0xBF - b pixels of the
\* colour that follows, b in 0xBF .. 0xFF 256 - b literal pixels.
Cl2Decode(runs, i, transparent) ==
    IF i > Len(runs) THEN <<>>
    ELSE LET b == runs[i]
         IN  IF b < 128
             THEN [j \in 1 .. b |-> transparent] \o Cl2Decode(runs, i + 1, transparent)
             ELSE IF b < 191
             THEN (IF i + 1 > Len(runs) THEN <<>>
                   ELSE [j \in 1 .. (191 - b) |-> runs[i + 1]]
                        \o Cl2Decode(runs, i + 2, transparent))
             ELSE SubSeq(runs, i + 1,
                         IF i + 256 - b > Len(runs) THEN Len(runs) ELSE i + 256 - b)
                  \o Cl2Decode(runs, i + 1 + 256 - b, transparent)

RECURSIVE FillWidths(_, _)
\* The widths of the fill runs from runs[i] on.
FillWidths(runs, i) ==
    IF i > Len(runs) THEN {}
    ELSE LET b == runs[i]
         IN  IF b < 128 THEN FillWidths(runs, i + 1)
             ELSE IF b < 191 THEN {191 - b} \cup FillWidths(runs, i + 2)
             ELSE FillWidths(runs, i + 1 + 256 - b)

RECURSIVE FrameLines(_, _)
\* The pixels of lines line, line - 1, .. 0 of a frame of the surface of
\* the state: the lines of the frame from the bottom one up.
FrameLines(frame, line) ==
    IF line < 0 THEN <<>>
    ELSE LET p == ((frame - 1) * (args.height \div args.numFrames) + line) * args.pitch
         IN  SubSeq(src, p + 1, p + args.width) \o FrameLines(frame, line - 1)

\* C28: for every surface, frame count and transparent colour, the runs
\* SurfaceToCl2 emits for a frame decode to the width x frameHeight pixels
\* of the frame's lines from the bottom line up, and a fill run stands for
\* 3 or more pixels, also when fully transparent lines that follow each
\* other are merged into one transparent run.
C28_Cl2RoundTrip ==
    pc = "SurfaceToCl2" =>
        \A frame \in 1 .. args.numFrames :
            /\ Cl2Decode(FrameRuns(dst, frame), 1, args.transparentColorIndex)
                   = FrameLines(frame, locals.frameHeight - 1)
            /\ \A n \in FillWidths(FrameRuns(dst, frame), 1) : n >= 3


\* C29: once a menu item was selected by UiMainMenuSelect(v), v # 0, during
\* UiPollAndRender, UiMainMenuDialog returns that v in *pdwResult;
\* MAINMENU_ATTRACT_MODE is returned only if no item was selected before
\* the loop ended, also when the selection and the expiry of the attract
\* time out fall into the same turn of the loop; the result is never 0.
C29_SelectionReturned ==
    pc = "returned" =>
        /\ locals.selected # 0 => locals.pdwResult = locals.selected
        /\ locals.pdwResult = MAINMENU_ATTRACT_MODE => locals.selected = 0
        /\ locals.pdwResult # 0


RECURSIVE Joined(_, _, _)
\* The slices from slices[i] on joined with the character ch.
Joined(slices, i, ch) ==
    IF i > Len(slices) THEN <<>>
    ELSE IF i = Len(slices) THEN slices[i]
    ELSE slices[i] \o <<ch>> \o Joined(slices, i + 1, ch)

\* The number of characters ch in the text.
Occurrences(text, ch) == Cardinality({i \in 1 .. Len(text) : text[i] = ch})

\* C30: for a non-empty text and a split character c, the loop from
\* begin() until the iterator equals end() ends after visiting, in order,
\* (occurrences of c) + 1 slices, each the longest substring without c
\* between two delimiters, possibly empty, also the empty last slice of a
\* text that ends with c, so that the slices joined with c give the text.
C30_SplitSlices ==
    /\ pc = "done" =>
          /\ Len(spans) = Occurrences(args.text, args.splitBy) + 1
          /\ \A i \in 1 .. Len(spans) : Occurrences(spans[i], args.splitBy) = 0
          /\ Joined(spans, 1, args.splitBy) = args.text
    /\ pc = "loop" => Len(spans) <= Occurrences(args.text, args.splitBy) + 1

============================================================================
